---- MODULE Spec2Model ----
(***************************************************************************)
(* Content import pipeline of the OSINT entity extractor plugin.           *)
(*                                                                         *)
(*   SpecBatch  the batch orchestrator        main.ts  runBatchImport      *)
(*   SpecRetry  the retry controller          main.ts  callModelWithRetries*)
(*                                                     callPdfVisionWith.. *)
(*   SpecNote   the frontmatter validator     note.ts  ensureFrontmatter.. *)
(*   SpecPdf    the pdf extraction            pdf.ts   fetchPdfAsArrayBuffer*)
(*                                                     extractPdfContent   *)
(*   SpecParse  the url list / csv parser     csv.ts   parseUrlInput       *)
(*   SpecTags   the tag normalizer                     normalizeTags       *)
(*   SpecImport the single-URL import         main.ts  runImport           *)
(*   SpecRuns   the imports started from the  main.ts  onload, runImport,  *)
(*              commands, running together             runBatchImport      *)
(*   SpecFormat the choice of formatter and   main.ts  processExtracted..  *)
(*              the model request             openai.ts formatPdfWithVision*)
(*   SpecText   the extracted text            pdf.ts   extractPdfContent   *)
(*                                            extract.ts fetchAndExtract   *)
(*   SpecClient the cached API client         openai.ts getOpenAIClient    *)
(*   SpecSave   the saving of notes           note.ts  saveNoteToVault     *)
(*                                                                         *)
(* The machines share no state; each specification runs one of them and    *)
(* leaves the variables of the others at their initial values.             *)
(***************************************************************************)
EXTENDS Integers, Sequences, FiniteSets, TLC

VARIABLES
    \* ---- batch orchestrator (runBatchImport) ----
    entries,          \* the parsed url entries, in input order
    continueOnError,  \* settings.batchContinueOnError
    createReport,     \* settings.batchCreateReport
    i,                \* the loop index (0-based, as in the code)
    bpc,              \* "loop" | "item" | "delay" | "after" | "done"
    results,          \* BatchResult: [success, failed, errors]
    attempted,        \* history: urls handed to runImportSilent, in order
    outcomes,         \* history: how each attempted entry ended
    batchSleeps,      \* history: number of inter-request delays started
    stopped,          \* history: the loop was left through `break`
    report,           \* the report created after the loop, or NoReport
    \* ---- retry controller (callModelWithRetries / callPdfVisionWithRetries) ----
    provider,         \* settings.provider
    mode,             \* "text" (callModelWithRetries) | "vision" (callPdfVisionWithRetries)
    maxRetries,       \* settings.maxRetries ?? 0
    attempt,          \* local `attempt`
    lastError,        \* local `lastError`
    rpc,              \* "idle" | "inflight" | "sleeping" | "returned" | "thrown"
    trace,            \* history: calls and sleeps of the current invocation, in order
    raised,           \* history: the errors the calls of this invocation raised
    outcome,          \* value returned or error thrown by the invocation
    invocations,      \* number of invocations started
    \* ---- frontmatter validator (ensureFrontmatterPresent) ----
    note,             \* the model output, a sequence of characters
    npc,              \* "input" | "done"
    validated,        \* result of ensureFrontmatterPresent(note)
    \* ---- pdf extraction (fetchPdfAsArrayBuffer / extractPdfContent) ----
    pdfBuffer,        \* the bytes of the document
    pdfVia,           \* "url" (fetchAndExtractPdf) | "manual" (ManualImportModal)
    ppc,              \* "fetched" | "verified" | "done"
    pdfOutcome,       \* what the extraction returned or threw
    parserRuns,       \* history: number of getDocumentProxy calls
    \* ---- url list / csv parser (parseUrlInput) ----
    inputLines,       \* the lines the input text was typed as: [url, label] each
    inputText,        \* the text handed to parseUrlInput
    qpc,              \* "input" | "done"
    parsedInput,      \* result of parseUrlInput(inputText)
    \* ---- tag normalizer (normalizeTags) ----
    tagInput,         \* settings.defaultTags, a sequence of characters
    tpc,              \* "input" | "normalized" | "again"
    tags,             \* normalizeTags(tagInput)
    tagsAgain,        \* normalizeTags(tags.join(","))
    \* ---- single-URL import (runImport) ----
    importUrl,        \* the url: [pathname, format]
    ipc,              \* where the import is (see the actions)
    via,              \* "download" | "manual": where the document came from
    probes,           \* history: number of HEAD requests made
    probeFailed,      \* history: the HEAD request failed
    detected,         \* result of detectContentType
    failure,          \* history: the error runImport caught, and its stage
    manualOffered,    \* history: number of times the manual import dialog was opened
    notice,           \* the last message shown
    resolution,       \* what the promise of runImport resolved with, or "pending"
    steps,            \* history: the steps of processExtractedContent that were completed
    \* ---- imports running together (onload: runImport / runBatchImport) ----
    runs,             \* the imports started from the commands, and where each one is
    stopOnError,      \* !settings.batchContinueOnError
    runRetries,       \* settings.maxRetries ?? 0
    \* ---- formatting of one document (processExtractedContent / runImportSilent) ----
    fSettings,        \* settings: [provider, pdfHandling, model, maxRetries]
    fMeta,            \* the extraction result: [contentType, pdfBuffer], or NoMeta
    fpc,              \* "start" | "extracted" | "call" | "inflight" | "sleeping" | "returned" | "thrown"
    fPath,            \* "none" | "vision" (callPdfVisionWithRetries) | "text" (callModelWithRetries)
    fAttempt,         \* local `attempt` of the retry controller
    fRequests,        \* history: number of requests sent to the provider
    fSleeps,          \* history: number of backoff sleeps
    fOutcome,         \* what the retry controller returned or threw
    \* ---- text of an extraction result (fetchAndExtract / extractPdfContent) ----
    xDoc,             \* the document: [kind |-> "html", text] or [kind |-> "pdf", pages]
    xMaxChars,        \* settings.maxChars
    xMaxPages,        \* settings.pdfMaxPages (0: not set)
    xpc,              \* "input" | "done"
    xFullText,        \* history: the text handed to trimText
    xText,            \* the `text` of the result
    \* ---- provider client cache (getOpenAIClient) ----
    cachedClient,     \* module variable: [key, baseUrl, client] or NoClient
    built,            \* history: the options each client was constructed with, in order
    clientCalls,      \* history: the calls of getOpenAIClient: [apiKey, baseUrl, client, built]
    \* ---- saving notes (saveNoteToVault) ----
    vaultFiles,       \* the files of the output folder: path number -> content
    vaultFolder,      \* the output folder exists
    savers            \* the running calls of saveNoteToVault: [pc, candidate, path]

batchVars == <<entries, continueOnError, createReport, i, bpc, results,
               attempted, outcomes, batchSleeps, stopped, report>>
retryVars == <<provider, mode, maxRetries, attempt, lastError, rpc, trace,
               raised, outcome, invocations>>
noteVars  == <<note, npc, validated>>
pdfVars   == <<pdfBuffer, pdfVia, ppc, pdfOutcome, parserRuns>>
parseVars == <<inputLines, inputText, qpc, parsedInput>>
tagVars   == <<tagInput, tpc, tags, tagsAgain>>
importVars == <<importUrl, ipc, via, probes, probeFailed, detected, failure,
                manualOffered, notice, resolution, steps>>
runVars   == <<runs, stopOnError, runRetries>>
formatVars == <<fSettings, fMeta, fpc, fPath, fAttempt, fRequests, fSleeps, fOutcome>>
textVars == <<xDoc, xMaxChars, xMaxPages, xpc, xFullText, xText>>
clientVars == <<cachedClient, built, clientCalls>>
saveVars == <<vaultFiles, vaultFolder, savers>>
vars == <<batchVars, retryVars, noteVars, pdfVars, parseVars, tagVars, importVars,
          runVars, formatVars, textVars, clientVars, saveVars>>
notBatch == <<retryVars, noteVars, pdfVars, parseVars, tagVars, importVars, runVars,
              formatVars, textVars, clientVars, saveVars>>
notRetry == <<batchVars, noteVars, pdfVars, parseVars, tagVars, importVars, runVars,
              formatVars, textVars, clientVars, saveVars>>
notNote == <<batchVars, retryVars, pdfVars, parseVars, tagVars, importVars, runVars,
             formatVars, textVars, clientVars, saveVars>>
notPdf == <<batchVars, retryVars, noteVars, parseVars, tagVars, importVars, runVars,
            formatVars, textVars, clientVars, saveVars>>
notParse == <<batchVars, retryVars, noteVars, pdfVars, tagVars, importVars, runVars,
              formatVars, textVars, clientVars, saveVars>>
notTags == <<batchVars, retryVars, noteVars, pdfVars, parseVars, importVars, runVars,
             formatVars, textVars, clientVars, saveVars>>
notImport == <<batchVars, retryVars, noteVars, pdfVars, parseVars, tagVars, runVars,
               formatVars, textVars, clientVars, saveVars>>
notRuns == <<batchVars, retryVars, noteVars, pdfVars, parseVars, tagVars, importVars,
             formatVars, textVars, clientVars, saveVars>>
notFormat == <<batchVars, retryVars, noteVars, pdfVars, parseVars, tagVars, importVars,
               runVars, textVars, clientVars, saveVars>>
notText == <<batchVars, retryVars, noteVars, pdfVars, parseVars, tagVars, importVars,
             runVars, formatVars, clientVars, saveVars>>
notClient == <<batchVars, retryVars, noteVars, pdfVars, parseVars, tagVars, importVars,
               runVars, formatVars, textVars, saveVars>>
notSave == <<batchVars, retryVars, noteVars, pdfVars, parseVars, tagVars, importVars,
             runVars, formatVars, textVars, clientVars>>

(***************************************************************************)
(* Bounds                                                                  *)
(***************************************************************************)
MaxEntries == 3
MaxRetriesBound == 3
MaxInvocations == 2
MaxLines == 4
MaxBufferLen == 101
MaxInputLines == 3
MaxTagChars == 4
MaxRuns == 2
MaxBatchLen == 2
MaxRunRetries == 1
MaxFormatRetries == 1
MaxPdfPages == 3
MaxTextLen == 4
MaxCharsBound == 5
MaxClientCalls == 4
MaxSavers == 2
MaxExisting == 3

(***************************************************************************)
(* Batch orchestrator                                                      *)
(***************************************************************************)
Urls == <<"u1", "u2", "u3", "u4", "u5">>

\* messages of the errors the item pipeline can throw
Messages == {"HTTP 403 when fetching URL", "Invalid YAML frontmatter"}

NullMessage == "Import returned null"

NoReport == [emitted |-> FALSE]

EmptyResults == [success |-> 0, failed |-> 0, errors |-> <<>>]

BatchIdle ==
    /\ entries = <<>>
    /\ continueOnError = TRUE
    /\ createReport = TRUE
    /\ i = 0
    /\ bpc = "done"
    /\ results = EmptyResults
    /\ attempted = <<>>
    /\ outcomes = <<>>
    /\ batchSleeps = 0
    /\ stopped = FALSE
    /\ report = NoReport

\* State when the loop is first reached: entries non-empty (an empty list
\* returns before the loop), results zeroed.
BatchInit ==
    /\ \E n \in 1..MaxEntries : entries = SubSeq(Urls, 1, n)
    /\ continueOnError \in BOOLEAN
    /\ createReport \in BOOLEAN
    /\ i = 0
    /\ bpc = "loop"
    /\ results = EmptyResults
    /\ attempted = <<>>
    /\ outcomes = <<>>
    /\ batchSleeps = 0
    /\ stopped = FALSE
    /\ report = NoReport

\* for (...; i < entries.length; ...) { entry = entries[i]; await runImportSilent(entry.url)
StartItem ==
    /\ bpc = "loop"
    /\ i < Len(entries)
    /\ attempted' = Append(attempted, entries[i + 1])
    /\ bpc' = "item"
    /\ UNCHANGED <<entries, continueOnError, createReport, i, results,
                   outcomes, batchSleeps, stopped, report>>
    /\ UNCHANGED notBatch

EndOfBodyAlwaysSleeps ==
    /\ bpc' = "delay"
    /\ batchSleeps' = batchSleeps + 1
    /\ i' = i

\* the end of the loop body: the rate limiting delay, then i++
EndOfBody ==
    IF i < Len(entries) - 1
    THEN /\ bpc' = "delay"
         /\ batchSleeps' = batchSleeps + 1
         /\ i' = i
    ELSE /\ bpc' = "loop"
         /\ batchSleeps' = batchSleeps
         /\ i' = i + 1

\* runImportSilent resolved with a file
ItemReturnsFile ==
    /\ bpc = "item"
    /\ results' = [results EXCEPT !.success = @ + 1]
    /\ outcomes' = Append(outcomes, "file")
    /\ EndOfBody
    /\ UNCHANGED <<entries, continueOnError, createReport, attempted, stopped, report>>
    /\ UNCHANGED notBatch

ItemReturnsNullUnrecorded ==
    /\ bpc = "item"
    /\ results' = [results EXCEPT !.failed = @ + 1]
    /\ outcomes' = Append(outcomes, "null")
    /\ EndOfBody
    /\ UNCHANGED <<entries, continueOnError, createReport, attempted, stopped, report>>
    /\ UNCHANGED notBatch

\* runImportSilent resolved with null (its declared type is TFile | null)
ItemReturnsNull ==
    /\ bpc = "item"
    /\ results' = [results EXCEPT
                     !.failed = @ + 1,
                     !.errors = Append(@, [url |-> entries[i + 1], message |-> NullMessage])]
    /\ outcomes' = Append(outcomes, "null")
    /\ EndOfBody
    /\ UNCHANGED <<entries, continueOnError, createReport, attempted, stopped, report>>
    /\ UNCHANGED notBatch

BreaksOnErrorAlways == TRUE

\* whether the catch block leaves the loop
BreaksOnError == ~continueOnError

\* runImportSilent rejected with an error whose message is m
ItemThrows(m) ==
    /\ bpc = "item"
    /\ results' = [results EXCEPT
                     !.failed = @ + 1,
                     !.errors = Append(@, [url |-> entries[i + 1], message |-> m])]
    /\ outcomes' = Append(outcomes, "throw")
    /\ IF BreaksOnError
       THEN /\ bpc' = "after"
            /\ stopped' = TRUE
            /\ UNCHANGED <<i, batchSleeps>>
       ELSE /\ EndOfBody
            /\ stopped' = stopped
    /\ UNCHANGED <<entries, continueOnError, createReport, attempted, report>>
    /\ UNCHANGED notBatch

\* the delay timer fires; i++
DelayDone ==
    /\ bpc = "delay"
    /\ i' = i + 1
    /\ bpc' = "loop"
    /\ UNCHANGED <<entries, continueOnError, createReport, results, attempted,
                   outcomes, batchSleeps, stopped, report>>
    /\ UNCHANGED notBatch

\* the loop condition fails
LoopExit ==
    /\ bpc = "loop"
    /\ i >= Len(entries)
    /\ bpc' = "after"
    /\ UNCHANGED <<entries, continueOnError, createReport, i, results, attempted,
                   outcomes, batchSleeps, stopped, report>>
    /\ UNCHANGED notBatch

\* after the loop: the result notice and the error report;
\* createBatchErrorReport catches the error of saveNoteToVault and only warns
\* on the console, so a report whose save failed does not exist
Finish(saved) ==
    /\ bpc = "after"
    /\ report' = IF createReport /\ Len(results.errors) > 0 /\ saved
                 THEN [emitted |-> TRUE,
                       total_success |-> results.success,
                       total_failed |-> results.failed,
                       errors |-> results.errors]
                 ELSE NoReport
    /\ bpc' = "done"
    /\ UNCHANGED <<entries, continueOnError, createReport, i, results, attempted,
                   outcomes, batchSleeps, stopped>>
    /\ UNCHANGED notBatch

BatchNext ==
    \/ StartItem
    \/ ItemReturnsFile
    \/ ItemReturnsNull
    \/ \E m \in Messages : ItemThrows(m)
    \/ DelayDone
    \/ LoopExit
    \/ \E saved \in BOOLEAN : Finish(saved)

(***************************************************************************)
(* Retry controller                                                        *)
(***************************************************************************)
\* `status` of an error that carries none (undefined is falsy, like 0)
NoStatus == 0

Statuses == {NoStatus, 400, 401, 403, 429, 500, 503}

Codes == {"none", "insufficient_quota"}

\* The errors a model call can raise. `call` is the number of the call that
\* raised it, so that two errors of different calls are different objects.
ModelError(s, c, n) == [kind |-> "error", status |-> s, code |-> c, call |-> n]

NoError == [kind |-> "none"]

AuthError == [kind |-> "auth"]     \* new Error("OpenAI rejected the API key (401). ...")

QuotaError == [kind |-> "quota"]   \* new Error("OpenAI quota exhausted. ...")

Success(n) == [kind |-> "value", call |-> n]

CallEvent == [ev |-> "call"]

BaseDelayMs == 500

DelayMsLinear(a) == BaseDelayMs * (a + 1)

\* const delayMs = 500 * Math.pow(2, attempt)
DelayMs(a) == BaseDelayMs * (2 ^ a)

SleepEvent(a) == [ev |-> "sleep", ms |-> DelayMs(a)]

IsAuthFatalNever(e) == FALSE

\* if (status === 401 && provider === "openai")  -- text mode
\* if (status === 401)                           -- vision mode
IsAuthFatal(e) ==
    /\ e.status = 401
    /\ (mode = "vision" \/ provider = "openai")

IsQuotaFatalNever(e) == FALSE

\* if (code === "insufficient_quota" && provider === "openai")  -- text mode
\* if (code === "insufficient_quota")                           -- vision mode
IsQuotaFatal(e) ==
    /\ e.code = "insufficient_quota"
    /\ (mode = "vision" \/ provider = "openai")

RetriableAnyClientError(e) == e.status # NoStatus /\ e.status >= 400

\* const retriable = status === 429 || (status && status >= 500)
Retriable(e) == e.status = 429 \/ (e.status # NoStatus /\ e.status >= 500)

BreaksLoopNoLimit(e) == ~Retriable(e)

\* if (!retriable || attempt === maxRetries) break
BreaksLoop(e) == ~Retriable(e) \/ attempt = maxRetries

Calls(t) == Len(SelectSeq(t, LAMBDA x : x.ev = "call"))

Sleeps(t) == SelectSeq(t, LAMBDA x : x.ev = "sleep")

RetryIdle ==
    /\ provider = "openai"
    /\ mode = "text"
    /\ maxRetries = 0
    /\ attempt = 0
    /\ lastError = NoError
    /\ rpc = "idle"
    /\ trace = <<>>
    /\ raised = <<>>
    /\ outcome = NoError
    /\ invocations = 0

\* native vision is only used with provider openai (processExtractedContent)
RetryInit ==
    /\ \E pm \in {<<"openai", "text">>, <<"lmstudio", "text">>, <<"openai", "vision">>} :
          /\ provider = pm[1]
          /\ mode = pm[2]
    /\ maxRetries \in 0..MaxRetriesBound
    /\ attempt = 0
    /\ lastError = NoError
    /\ rpc = "idle"
    /\ trace = <<>>
    /\ raised = <<>>
    /\ outcome = NoError
    /\ invocations = 0

\* throw lastError instanceof Error ? lastError : new Error(String(lastError))
\* (every value the provider client raises is an Error instance)
ThrowLast(e) ==
    /\ rpc' = "thrown"
    /\ outcome' = e

\* A new invocation: attempt = 0, lastError undefined, the loop is entered
\* (0 <= maxRetries) and the first model call is issued.
Invoke ==
    /\ rpc \in {"idle", "returned", "thrown"}
    /\ invocations < MaxInvocations
    /\ invocations' = invocations + 1
    /\ attempt' = 0
    /\ lastError' = NoError
    /\ outcome' = NoError
    /\ raised' = <<>>
    /\ trace' = <<CallEvent>>
    /\ rpc' = "inflight"
    /\ UNCHANGED <<provider, mode, maxRetries>>
    /\ UNCHANGED notRetry

\* return await formatWithModel(...) / formatPdfWithVision(...)
CallSucceeds ==
    /\ rpc = "inflight"
    /\ rpc' = "returned"
    /\ outcome' = Success(Calls(trace))
    /\ UNCHANGED <<provider, mode, maxRetries, attempt, lastError, trace,
                   raised, invocations>>
    /\ UNCHANGED notRetry

\* catch (err) { ... }
CallFails(s, c) ==
    /\ rpc = "inflight"
    /\ LET e == ModelError(s, c, Calls(trace)) IN
       /\ lastError' = e
       /\ raised' = Append(raised, e)
       /\ IF IsAuthFatal(e)
          THEN /\ rpc' = "thrown"
               /\ outcome' = AuthError
               /\ trace' = trace
          ELSE IF IsQuotaFatal(e)
          THEN /\ rpc' = "thrown"
               /\ outcome' = QuotaError
               /\ trace' = trace
          ELSE IF BreaksLoop(e)
          THEN /\ ThrowLast(e)
               /\ trace' = trace
          ELSE /\ rpc' = "sleeping"
               /\ trace' = Append(trace, SleepEvent(attempt))
               /\ outcome' = outcome
    /\ UNCHANGED <<provider, mode, maxRetries, attempt, invocations>>
    /\ UNCHANGED notRetry

\* the backoff timer fires: attempt += 1, the loop condition, the next call
BackoffDone ==
    /\ rpc = "sleeping"
    /\ attempt' = attempt + 1
    /\ IF attempt + 1 <= maxRetries
       THEN /\ rpc' = "inflight"
            /\ trace' = Append(trace, CallEvent)
            /\ outcome' = outcome
       ELSE /\ ThrowLast(lastError)
            /\ trace' = trace
    /\ UNCHANGED <<provider, mode, maxRetries, lastError, raised, invocations>>
    /\ UNCHANGED notRetry

RetryNext ==
    \/ Invoke
    \/ CallSucceeds
    \/ \E s \in Statuses, c \in Codes : CallFails(s, c)
    \/ BackoffDone

(***************************************************************************)
(* Frontmatter validator                                                   *)
(*                                                                         *)
(* A note is a sequence of characters.  The characters that matter to the  *)
(* code are kept: the dash, the line break, the colon of a key, the double *)
(* quote, the backslash, the slash and the fence character; letters stand for     *)
(* words (T for the key `title`).                                          *)
(***************************************************************************)
NL == "\n"
Dash == "-"
Colon == ":"
Quote == "q"
Backslash == "b"
Slash == "/"
Tick == "~"            \* the fence character (a backtick cannot appear in a TLA+ string)
TitleKey == "T"
Letters == {"T", "A", "B", "C", "x"}

Delim == <<Dash, Dash, Dash>>
Fence == <<Tick, Tick, Tick>>

\* The lines the model output is made of
LineEntry       == <<"A", Colon, "x">>                               \* A: x
LineTitleBad    == <<TitleKey, Colon, Quote, Backslash, "x", Quote>> \* title: "\x"   (unknown escape)
LineOtherBad    == <<"B", Colon, Quote, Backslash, "x", Quote>>      \* B: "\x"       (unknown escape)
LineEscapedQuote == <<"C", Colon, Quote, Backslash, Quote, "x", Quote>> \* C: "\"x"   (valid escape)
LineScalar      == <<"x">>                                           \* x
LineItem        == <<Dash, "x">>                                     \* - x
LineRule        == <<Dash, Dash, Dash, Dash>>                        \* ----
LineTemplates == {Delim, LineEntry, LineTitleBad, LineOtherBad, LineEscapedQuote,
                  LineScalar, LineItem, LineRule}

RECURSIVE JoinLines(_)
JoinLines(ls) ==
    IF Len(ls) = 0 THEN <<>>
    ELSE IF Len(ls) = 1 THEN ls[1]
    ELSE ls[1] \o <<NL>> \o JoinLines(Tail(ls))

\* ---- string primitives (0-based positions, as in JavaScript) ----
Min(a, b) == IF a < b THEN a ELSE b
Max(a, b) == IF a > b THEN a ELSE b

\* s.slice(from, to)
Slice(s, from, to) == SubSeq(s, from + 1, Min(to, Len(s)))

\* s.slice(from)
SliceFrom(s, from) == SubSeq(s, from + 1, Len(s))

StartsWithFirstChar(s, p) == Len(s) >= 1 /\ s[1] = p[1]

\* s.startsWith(p)
StartsWith(s, p) == Len(s) >= Len(p) /\ SubSeq(s, 1, Len(p)) = p

MatchesAt(s, p, k) == k + Len(p) <= Len(s) /\ SubSeq(s, k + 1, k + Len(p)) = p

\* s.indexOf(p, from): the first position >= from where p occurs, or -1
IndexOf(s, p, from) ==
    LET hits == {k \in from..(Len(s) - Len(p)) : MatchesAt(s, p, k)}
    IN IF hits = {} THEN -1 ELSE CHOOSE k \in hits : \A h \in hits : k <= h

Space == " "

IsSpace(c) == c \in {NL, Space}

\* s.trim()
Trim(s) ==
    LET keep == {k \in 1..Len(s) : ~IsSpace(s[k])}
    IN IF keep = {} THEN <<>>
       ELSE SubSeq(s, CHOOSE k \in keep : \A h \in keep : k <= h,
                      CHOOSE k \in keep : \A h \in keep : k >= h)

\* s.replace(/\\/g, "/")
ReplaceBackslashes(s) == [k \in 1..Len(s) |-> IF s[k] = Backslash THEN Slash ELSE s[k]]

RECURSIVE SplitLines(_)
SplitLines(s) ==
    LET k == IndexOf(s, <<NL>>, 0)
    IN IF k = -1 THEN <<s>>
       ELSE <<Slice(s, 0, k)>> \o SplitLines(SliceFrom(s, k + 1))

\* ---- parseYaml (obsidian), on the lines this model can produce ----
\* A double-quoted scalar starting at s[1] = Quote: "ok" when it is closed by an
\* unescaped quote that ends the line, "error" on an unknown escape, on text
\* after the closing quote or when it is never closed.
RECURSIVE QuotedRest(_)
QuotedRest(s) ==
    IF Len(s) = 0 THEN "error"
    ELSE IF s[1] = Quote THEN (IF Len(s) = 1 THEN "ok" ELSE "error")
    ELSE IF s[1] = Backslash
         THEN IF Len(s) >= 2 /\ s[2] = Quote THEN QuotedRest(SliceFrom(s, 2))
              ELSE "error"
    ELSE QuotedRest(Tail(s))

ScalarOk(v) ==
    IF Len(v) = 0 THEN TRUE
    ELSE IF v[1] = Quote THEN QuotedRest(Tail(v)) = "ok"
    ELSE \A k \in 1..Len(v) : v[k] # Colon

\* "entry" (key: value), "item" (- value), "scalar" or "error"
LineKind(l) ==
    IF Len(l) >= 2 /\ l[1] \in Letters /\ l[2] = Colon
    THEN (IF ScalarOk(SliceFrom(l, 2)) THEN "entry" ELSE "error")
    ELSE IF l[1] = Dash /\ (Len(l) = 1 \/ l[2] # Dash)
    THEN (IF ScalarOk(SliceFrom(l, 1)) THEN "item" ELSE "error")
    ELSE IF ScalarOk(l) THEN "scalar" ELSE "error"

\* "mapping" | "sequence" | "scalar" | "null", or "error" when the parser throws
parseYaml(text) ==
    LET ls == SelectSeq(SplitLines(text), LAMBDA l : Len(l) > 0)
        kinds == {LineKind(ls[k]) : k \in 1..Len(ls)}
        keys == {ls[k][1] : k \in 1..Len(ls)}
    IN IF Len(ls) = 0 THEN "null"
       ELSE IF "error" \in kinds \/ Cardinality(kinds) > 1 THEN "error"
       ELSE IF kinds = {"entry"}
            THEN (IF Cardinality(keys) = Len(ls) THEN "mapping" ELSE "error")
       ELSE IF kinds = {"item"} THEN "sequence"
       ELSE "scalar"

\* parsed !== null && typeof parsed === "object"  (an array is an object too)
IsObject(parsed) == parsed \in {"mapping", "sequence"}

\* ---- the repair strategies ----
\* line.replace(/title:\s*"(.*)"/g, ...): backslashes become slashes between the
\* quote after `title:` and the last quote of the line
SanitizeTitleLine(l) ==
    LET starts == {k \in 1..Len(l) : k + 2 <= Len(l) /\ l[k] = TitleKey
                                     /\ l[k + 1] = Colon /\ l[k + 2] = Quote}
        p == CHOOSE k \in starts : \A h \in starts : k <= h
        quotes == {k \in 1..Len(l) : l[k] = Quote /\ k > p + 2}
        q == CHOOSE k \in quotes : \A h \in quotes : k >= h
    IN IF starts = {} THEN l
       ELSE IF quotes = {} THEN l
       ELSE [k \in 1..Len(l) |->
                IF k > p + 2 /\ k < q /\ l[k] = Backslash THEN Slash ELSE l[k]]

SanitizeTitles(block) ==
    LET ls == SplitLines(block)
    IN JoinLines([k \in 1..Len(ls) |-> SanitizeTitleLine(ls[k])])

Ok(text, how) == [ok |-> TRUE, text |-> text, via |-> how]
Fail(why) == [ok |-> FALSE, error |-> why]
NoResult == [ok |-> FALSE, error |-> "not run"]

\* `---\n${block.trim()}\n---${note.slice(second + 3)}`
Rebuild(n, block, second) ==
    Delim \o <<NL>> \o Trim(block) \o <<NL>> \o Delim \o SliceFrom(n, second + 3)

\* note.indexOf("\n---", 3)
ClosingIndex(n) == IndexOf(n, <<NL>> \o Delim, 3)

ensureFrontmatterPresent(n) ==
    IF ~StartsWith(n, Delim) THEN Fail("no opening delimiter")
    ELSE LET second == ClosingIndex(n) IN
    IF second = -1 THEN Fail("no closing delimiter")
    ELSE LET yamlBlock  == Slice(n, 3, second)
             sanitized  == ReplaceBackslashes(yamlBlock)
             sanitized2 == SanitizeTitles(yamlBlock)
         IN IF IsObject(parseYaml(Trim(yamlBlock))) THEN Ok(n, "as is")
            ELSE IF IsObject(parseYaml(Trim(sanitized)))
                 THEN Ok(Rebuild(n, sanitized, second), "strategy 1")
            ELSE IF IsObject(parseYaml(Trim(sanitized2)))
                 THEN Ok(Rebuild(n, sanitized2, second), "strategy 2")
            ELSE Fail("invalid yaml")

\* The model outputs: up to MaxLines lines, possibly wrapped as a whole in a
\* fenced code block.  formatWithModel returns output.trim(), so a note has
\* no surrounding blank lines.
Notes ==
    LET bodies == UNION {[1..k -> LineTemplates] : k \in 0..MaxLines}
    IN {JoinLines(b) : b \in bodies}
       \cup {JoinLines(<<Fence>> \o b \o <<Fence>>) : b \in bodies}

NoteIdle ==
    /\ note = <<>>
    /\ npc = "done"
    /\ validated = NoResult

NoteInit ==
    /\ note \in Notes
    /\ npc = "input"
    /\ validated = NoResult

\* const validated = ensureFrontmatterPresent(note)
Validate ==
    /\ npc = "input"
    /\ validated' = ensureFrontmatterPresent(note)
    /\ npc' = "done"
    /\ UNCHANGED note
    /\ UNCHANGED notNote

NoteNext == Validate

(***************************************************************************)
(* PDF extraction                                                          *)
(*                                                                         *)
(* A buffer is a sequence of bytes.  The code reads the first five bytes   *)
(* and, for the preview of its error message, the first hundred.           *)
(***************************************************************************)
Signature == <<"%", "P", "D", "F", "-">>
OtherByte == "x"
SignatureLen == 5
PreviewLen == 100

\* buffers of every length up to MaxBufferLen: each of the first five bytes is
\* the signature byte of its place or another byte, the rest is other bytes
Buffers ==
    UNION {{[k \in 1..n |-> IF k \in hit THEN Signature[k] ELSE OtherByte] :
               hit \in SUBSET (1..Min(n, SignatureLen))} : n \in 0..MaxBufferLen}

RangeError == [kind |-> "error", name |-> "RangeError",
               message |-> <<"Invalid", "typed", "array", "length">>]
InvalidPdfError == [kind |-> "error", name |-> "Error",
                    message |-> <<"Invalid PDF", "file.", "Content", "does", "not",
                                  "start", "with", "%PDF-.">>]
ParserError == [kind |-> "error", name |-> "InvalidPDFException",
                message |-> <<"Invalid PDF", "structure.">>]
Bytes(b) == [kind |-> "bytes", bytes |-> b]
ExtractedPdf == [kind |-> "extracted", contentType |-> "pdf"]
NoOutcome == [kind |-> "none"]

\* new Uint8Array(buffer, byteOffset, length): a RangeError when the view
\* does not fit in the buffer
Uint8ArrayView(buffer, byteOffset, length) ==
    IF byteOffset + length > Len(buffer) THEN RangeError
    ELSE Bytes(SubSeq(buffer, byteOffset + 1, byteOffset + length))

\* fetchPdfAsArrayBuffer, after the response: the magic bytes check
VerifyMagicBytes(buffer) ==
    LET header == Uint8ArrayView(buffer, 0, SignatureLen) IN
    IF header.kind = "error" THEN header
    ELSE IF ~StartsWith(header.bytes, Signature)
         THEN LET preview == Uint8ArrayView(buffer, 0, PreviewLen)
              IN IF preview.kind = "error" THEN preview ELSE InvalidPdfError
    ELSE Bytes(buffer)

PdfIdle ==
    /\ pdfBuffer = <<>>
    /\ pdfVia = "url"
    /\ ppc = "done"
    /\ pdfOutcome = NoOutcome
    /\ parserRuns = 0

\* the response body of the download, or the file the user picked
PdfInit ==
    /\ pdfBuffer \in Buffers
    /\ pdfVia \in {"url", "manual"}
    /\ ppc = "fetched"
    /\ pdfOutcome = NoOutcome
    /\ parserRuns = 0

\* fetchAndExtractPdf: const buffer = await fetchPdfAsArrayBuffer(url)
VerifyFetched ==
    /\ ppc = "fetched"
    /\ pdfVia = "url"
    /\ LET r == VerifyMagicBytes(pdfBuffer) IN
       IF r.kind = "error"
       THEN ppc' = "done" /\ pdfOutcome' = r
       ELSE ppc' = "verified" /\ pdfOutcome' = pdfOutcome
    /\ UNCHANGED <<pdfBuffer, pdfVia, parserRuns>>
    /\ UNCHANGED notPdf

\* extractPdfContent is reached after the check (download) or directly (manual import)
ParserReached ==
    \/ pdfVia = "url" /\ ppc = "verified"
    \/ pdfVia = "manual" /\ ppc = "fetched"

\* extractPdfContent: getDocumentProxy(uint8Array) opens the document
ParserAccepts ==
    /\ ParserReached
    /\ parserRuns' = parserRuns + 1
    /\ pdfOutcome' = ExtractedPdf
    /\ ppc' = "done"
    /\ UNCHANGED <<pdfBuffer, pdfVia>>
    /\ UNCHANGED notPdf

\* extractPdfContent: getDocumentProxy(uint8Array) throws
ParserRejects ==
    /\ ParserReached
    /\ parserRuns' = parserRuns + 1
    /\ pdfOutcome' = ParserError
    /\ ppc' = "done"
    /\ UNCHANGED <<pdfBuffer, pdfVia>>
    /\ UNCHANGED notPdf

PdfNext ==
    \/ VerifyFetched
    \/ ParserAccepts
    \/ ParserRejects

(***************************************************************************)
(* URL list / CSV parser                                                   *)
(*                                                                         *)
(* The input text is a sequence of tokens: a word (a maximal run of        *)
(* letters, digits, '+', '.', '-'), or one of the characters that matter   *)
(* to the code: ':' '/' '@' '#' ',' the space and the line break.          *)
(***************************************************************************)
Comma == ","
Hash == "#"
At == "@"

\* words that start with a letter, and words made of digits
LetterWords == {"http", "https", "httpx", "ftp", "mailto", "a.com", "b.com",
                "a", "b", "u", "c", "url", "title", "L1"}
DigitWords == {"8080"}

\* words that start with the characters `http`
HttpWords == {"http", "https", "httpx"}

HttpsPrefix == <<"https", Colon, Slash, Slash>>

\* the url cells the input is made of
UrlHttps    == <<"https", Colon, Slash, Slash, "a.com">>     \* https://a.com
UrlBare     == <<"a.com">>                                   \* a.com
UrlHttp     == <<"http", Colon, Slash, Slash, "b.com">>      \* http://b.com
UrlFtp      == <<"ftp", Colon, Slash, Slash, "a.com">>       \* ftp://a.com
UrlMailto   == <<"mailto", Colon, "u", At, "a.com">>         \* mailto:u@a.com
UrlHostPort == <<"a.com", Colon, "8080">>                    \* a.com:8080
UrlHttpx    == <<"httpx", Colon, Slash, Slash, "a.com">>     \* httpx://a.com
UrlFtpOpaque == <<"ftp", Colon, "a.com">>                    \* ftp:a.com
UrlWords    == <<"a", Space, "b">>                           \* a b
UrlComment  == <<Hash, "c">>                                 \* #c
UrlEmpty    == <<>>
UrlCells == {UrlHttps, UrlBare, UrlHttp, UrlFtp, UrlMailto, UrlHostPort, UrlHttpx,
             UrlFtpOpaque, UrlWords, UrlComment, UrlEmpty}

NoLabel == <<>>
LabelCells == {NoLabel, <<"L1">>, <<"title">>}

HeaderLine == [url |-> <<"url">>, label |-> <<"title">>]

\* a line as typed: the url cell, then a comma and the label cell if there is one
LineText(l) == IF l.label = NoLabel THEN l.url ELSE l.url \o <<Comma>> \o l.label

TextOf(ls) == JoinLines([k \in 1..Len(ls) |-> LineText(ls[k])])

\* /^[a-zA-Z][a-zA-Z0-9+.-]*:/.test(s)
HasScheme(s) == Len(s) >= 2 /\ s[1] \in LetterWords /\ s[2] = Colon

\* normalizeUrl
normalizeUrl(url) ==
    LET trimmed == Trim(url)
    IN IF trimmed = <<>> THEN <<>>
       ELSE IF HasScheme(trimmed) THEN trimmed
       ELSE HttpsPrefix \o trimmed

\* ---- new URL(s), without a base ----
SpecialSchemes == {"http", "https", "ftp"}

UrlFailure == [ok |-> FALSE, protocol |-> "none"]

RECURSIVE DropSlashes(_)
DropSlashes(s) ==
    IF Len(s) > 0 /\ s[1] = Slash THEN DropSlashes(Tail(s)) ELSE s

\* the tokens of s before the first token of `stops`
UpTo(s, stops) ==
    LET hits == {k \in 1..Len(s) : s[k] \in stops}
    IN IF hits = {} THEN s
       ELSE SubSeq(s, 1, (CHOOSE k \in hits : \A h \in hits : k <= h) - 1)

\* the tokens of s after the last token t (all of s when there is none)
AfterLast(s, t) ==
    LET hits == {k \in 1..Len(s) : s[k] = t}
    IN IF hits = {} THEN s
       ELSE SliceFrom(s, CHOOSE k \in hits : \A h \in hits : k >= h)

\* the tokens of s after the first token t (nothing when there is none)
AfterFirst(s, t) ==
    LET hits == {k \in 1..Len(s) : s[k] = t}
    IN IF hits = {} THEN <<>>
       ELSE SliceFrom(s, CHOOSE k \in hits : \A h \in hits : k <= h)

NewURL(s) ==
    IF ~HasScheme(s) THEN UrlFailure
    ELSE IF s[1] \notin SpecialSchemes THEN [ok |-> TRUE, protocol |-> s[1]]
    ELSE LET authority == UpTo(DropSlashes(SliceFrom(s, 2)), {Slash, Hash})
             hostport  == AfterLast(authority, At)
             host      == UpTo(hostport, {Colon})
             port      == AfterFirst(hostport, Colon)
         IN IF Len(host) # 1 \/ host[1] \notin (LetterWords \cup DigitWords)
               THEN UrlFailure
            ELSE IF port # <<>> /\ (Len(port) # 1 \/ port[1] \notin DigitWords)
               THEN UrlFailure
            ELSE [ok |-> TRUE, protocol |-> s[1]]

\* isValidUrl: the parse error of new URL is caught and gives false
isValidUrl(str) ==
    LET trimmed == Trim(str)
    IN IF trimmed = <<>> THEN FALSE
       ELSE LET url == NewURL(IF trimmed[1] \in HttpWords THEN trimmed
                              ELSE HttpsPrefix \o trimmed)
            IN url.ok /\ url.protocol \in {"http", "https"}

\* ---- the results ----
Entry(url, label) == [url |-> url, label |-> label]
InvalidUrl(where, n, raw) == [where |-> where, n |-> n, what |-> "Invalid URL", url |-> raw]
OtherError(what) == [where |-> "input", n |-> 0, what |-> what, url |-> <<>>]
EmptyParse == [entries |-> <<>>, errors |-> <<>>, seenUrls |-> {}]
NoParse == [kind |-> "none"]

DuplicateNever(acc, url) == FALSE

\* seenUrls.has(url)
Duplicate(acc, url) == url \in acc.seenUrls

CollectUnrecorded(acc, url, label, err) ==
    IF ~isValidUrl(url) THEN acc
    ELSE IF Duplicate(acc, url) THEN acc
    ELSE [acc EXCEPT !.seenUrls = @ \cup {url},
                     !.entries = Append(@, Entry(url, label))]

\* the part of the loop body the two parsers share: validate, skip a
\* duplicate, push the entry
Collect(acc, url, label, err) ==
    IF ~isValidUrl(url) THEN [acc EXCEPT !.errors = Append(@, err)]
    ELSE IF Duplicate(acc, url) THEN acc
    ELSE [acc EXCEPT !.seenUrls = @ \cup {url},
                     !.entries = Append(@, Entry(url, label))]

\* ---- parseUrlList ----
ListBody(acc, rawLine, at) ==
    LET line == Trim(rawLine)
        commaIndex == IndexOf(line, <<Comma>>, 0)
        urlPart == IF commaIndex = -1 THEN line ELSE Trim(Slice(line, 0, commaIndex))
        labelPart == IF commaIndex = -1 THEN <<>> ELSE Trim(SliceFrom(line, commaIndex + 1))
    IN IF line = <<>> \/ line[1] = Hash THEN acc
       ELSE Collect(acc, normalizeUrl(urlPart), labelPart, InvalidUrl("Line", at + 1, urlPart))

RECURSIVE ListLoop(_, _, _)
ListLoop(acc, lines, at) ==
    IF at >= Len(lines) THEN acc
    ELSE ListLoop(ListBody(acc, lines[at + 1], at), lines, at + 1)

parseUrlList(text) ==
    LET lines == SelectSeq(SplitLines(text), LAMBDA l : Trim(l) # <<>>)
        acc == ListLoop(EmptyParse, lines, 0)
    IN [mode |-> "list", entries |-> acc.entries, errors |-> acc.errors]

\* ---- Papa.parse(csvText, {header: true, skipEmptyLines: true, transformHeader}) ----
RECURSIVE SplitFields(_)
SplitFields(l) ==
    LET k == IndexOf(l, <<Comma>>, 0)
    IN IF k = -1 THEN <<l>>
       ELSE <<Slice(l, 0, k)>> \o SplitFields(SliceFrom(l, k + 1))

Undefined == <<"undefined">>

PapaParse(csvText) ==
    LET lines  == SelectSeq(SplitLines(csvText), LAMBDA l : l # <<>>)
        heads  == SplitFields(lines[1])
        fields == [k \in 1..Len(heads) |-> Trim(heads[k])]
        cells(r) == SplitFields(lines[r + 1])
        data   == [r \in 1..(Len(lines) - 1) |->
                      [k \in 1..Len(fields) |->
                          IF k <= Len(cells(r)) THEN cells(r)[k] ELSE Undefined]]
        bad    == SelectSeq([r \in 1..(Len(lines) - 1) |-> r],
                            LAMBDA r : Len(cells(r)) # Len(fields))
        errors == [k \in 1..Len(bad) |->
                      [where |-> "Row", n |-> bad[k] - 1, url |-> <<>>,
                       what |-> IF Len(cells(bad[k])) < Len(fields)
                                THEN "Too few fields" ELSE "Too many fields"]]
    IN [data |-> data, errors |-> errors, fields |-> fields]

\* ---- detectUrlColumn / detectLabelColumn (as the place of the column) ----
URL_COLUMN_PATTERNS == <<"url", "link", "href", "source", "uri", "address">>
LABEL_COLUMN_PATTERNS == <<"label", "title", "name", "description", "desc">>

\* h.includes(pattern), for the words of this model
Includes(h, pattern) == \E k \in 1..Len(h) : h[k] = pattern

\* the first place of `headers` that satisfies Hit for the first pattern that
\* has one, or 0
FirstMatch(headers, patterns, Hit(_, _)) ==
    LET ps == {p \in 1..Len(patterns) : \E k \in 1..Len(headers) : Hit(headers[k], patterns[p])}
        p  == CHOOSE q \in ps : \A r \in ps : q <= r
        ks == {k \in 1..Len(headers) : Hit(headers[k], patterns[p])}
    IN IF ps = {} THEN 0 ELSE CHOOSE k \in ks : \A h \in ks : k <= h

IsExactly(h, pattern) == h = <<pattern>>

detectUrlColumn(headers) ==
    IF FirstMatch(headers, URL_COLUMN_PATTERNS, IsExactly) # 0
    THEN FirstMatch(headers, URL_COLUMN_PATTERNS, IsExactly)
    ELSE IF FirstMatch(headers, URL_COLUMN_PATTERNS, Includes) # 0
    THEN FirstMatch(headers, URL_COLUMN_PATTERNS, Includes)
    ELSE 1

detectLabelColumn(headers) ==
    IF FirstMatch(headers, LABEL_COLUMN_PATTERNS, IsExactly) # 0
    THEN FirstMatch(headers, LABEL_COLUMN_PATTERNS, IsExactly)
    ELSE FirstMatch(headers, LABEL_COLUMN_PATTERNS, Includes)

\* ---- parseCsvContent ----
CsvBody(acc, row, at, urlColumn, labelColumn) ==
    LET rawUrl == row[urlColumn]
        label == IF labelColumn # 0 /\ row[labelColumn] \notin {Undefined, <<>>}
                 THEN Trim(row[labelColumn]) ELSE NoLabel
    IN IF rawUrl = Undefined \/ rawUrl = <<>> THEN acc
       ELSE Collect(acc, normalizeUrl(rawUrl), label, InvalidUrl("Row", at + 2, rawUrl))

RECURSIVE CsvLoop(_, _, _, _, _)
CsvLoop(acc, data, at, urlColumn, labelColumn) ==
    IF at >= Len(data) THEN acc
    ELSE CsvLoop(CsvBody(acc, data[at + 1], at, urlColumn, labelColumn),
                 data, at + 1, urlColumn, labelColumn)

parseCsvContent(csvText) ==
    IF Trim(csvText) = <<>>
    THEN [mode |-> "csv", entries |-> <<>>, errors |-> <<OtherError("CSV content is empty")>>]
    ELSE LET result == PapaParse(csvText)
             headers == result.fields
             urlColumn == detectUrlColumn(headers)
             acc == CsvLoop([EmptyParse EXCEPT !.errors = result.errors], result.data, 0,
                            urlColumn, detectLabelColumn(headers))
         IN IF Len(headers) = 0
            THEN [mode |-> "csv", entries |-> <<>>,
                  errors |-> <<OtherError("No headers found in CSV")>>]
            ELSE IF headers[urlColumn] = <<>>      \* if (!urlColumn): the name is empty
            THEN [mode |-> "csv", entries |-> <<>>,
                  errors |-> <<OtherError("Could not detect URL column in CSV")>>]
            ELSE [mode |-> "csv", entries |-> acc.entries, errors |-> acc.errors]

\* ---- parseUrlInput ----
\* the words of this model that contain one of the header patterns
\* "url", "link", "href", "source", "uri", "label", "title", "name"
HeaderWords == {"url", "title"}

looksLikeHeader(firstLine) ==
    /\ \E k \in 1..Len(firstLine) : firstLine[k] = Comma
    /\ \E k \in 1..Len(firstLine) : firstLine[k] \in HeaderWords

parseUrlInput(text) ==
    LET trimmed == Trim(text)
    IN IF trimmed = <<>>
       THEN [mode |-> "none", entries |-> <<>>, errors |-> <<OtherError("Input is empty")>>]
       ELSE IF looksLikeHeader(SplitLines(trimmed)[1]) THEN parseCsvContent(trimmed)
       ELSE parseUrlList(trimmed)

\* the texts: up to MaxInputLines lines, after a header line or without one
InputLineSets ==
    LET lines == [url : UrlCells, label : LabelCells]
        bodies == UNION {[1..k -> lines] : k \in 0..MaxInputLines}
    IN bodies \cup {<<HeaderLine>> \o b : b \in bodies}

ParseIdle ==
    /\ inputLines = <<>>
    /\ inputText = <<>>
    /\ qpc = "done"
    /\ parsedInput = NoParse

ParseInit ==
    /\ inputLines \in InputLineSets
    /\ inputText = TextOf(inputLines)
    /\ qpc = "input"
    /\ parsedInput = NoParse

\* const { entries, errors } = parseUrlInput(csvContent)
Parse ==
    /\ qpc = "input"
    /\ parsedInput' = parseUrlInput(inputText)
    /\ qpc' = "done"
    /\ UNCHANGED <<inputLines, inputText>>
    /\ UNCHANGED notParse

ParseNext == Parse

(***************************************************************************)
(* Tag normalizer                                                          *)
(***************************************************************************)
Underscore == "_"
Bang == "!"

\* the characters of the tags setting: lower and upper case letters, a digit,
\* and the characters the slug rules name or replace
TagChars == {"a", "b", "B", "1", Hash, Underscore, Space, Dash, Comma, Bang}

\* [a-z0-9-]
SlugChars == {"a", "b", "1", Dash}

\* String.prototype.toLowerCase
ToLowerCase(s) == [k \in 1..Len(s) |-> IF s[k] = "B" THEN "b" ELSE s[k]]

\* s.replace(/[class]+/g, "-"): every maximal run of class characters becomes one hyphen
RECURSIVE ReplaceRuns(_, _)
ReplaceRuns(s, class) ==
    IF s = <<>> THEN <<>>
    ELSE IF s[1] \in class
         THEN IF Len(s) >= 2 /\ s[2] \in class THEN ReplaceRuns(Tail(s), class)
              ELSE <<Dash>> \o ReplaceRuns(Tail(s), class)
    ELSE <<s[1]>> \o ReplaceRuns(Tail(s), class)

ReplaceOutsideKept(s) == s

\* slug.replace(/[^a-z0-9-]/g, "-")
ReplaceOutside(s) == [k \in 1..Len(s) |-> IF s[k] \in SlugChars THEN s[k] ELSE Dash]

\* slug.replace(/^-+|-+$/g, "")
StripHyphens(s) ==
    LET keep == {k \in 1..Len(s) : s[k] # Dash}
    IN IF keep = {} THEN <<>>
       ELSE SubSeq(s, CHOOSE k \in keep : \A h \in keep : k <= h,
                      CHOOSE k \in keep : \A h \in keep : k >= h)

\* the slug of one trimmed, non-empty tag
Slug(tag) ==
    LET noHash   == IF tag[1] = Hash THEN Tail(tag) ELSE tag
        lower    == ToLowerCase(noHash)
        hyphened == ReplaceRuns(lower, {Space, NL, Underscore})
        cleaned  == ReplaceOutside(hyphened)
        single   == ReplaceRuns(cleaned, {Dash})
    IN StripHyphens(single)

\* de-duplicate while preserving order
RECURSIVE Unique(_, _)
Unique(slugs, seen) ==
    IF slugs = <<>> THEN <<>>
    ELSE IF slugs[1] \in seen THEN Unique(Tail(slugs), seen)
    ELSE <<slugs[1]>> \o Unique(Tail(slugs), seen \cup {slugs[1]})

normalizeTags(input) ==
    IF input = <<>> THEN <<>>
    ELSE LET parts   == SplitFields(input)
             trimmed == SelectSeq([k \in 1..Len(parts) |-> Trim(parts[k])],
                                  LAMBDA t : t # <<>>)
             slugs   == SelectSeq([k \in 1..Len(trimmed) |-> Slug(trimmed[k])],
                                  LAMBDA t : t # <<>>)
         IN Unique(slugs, {})

\* Array.prototype.join(",")
RECURSIVE Join(_)
Join(ts) ==
    IF ts = <<>> THEN <<>>
    ELSE IF Len(ts) = 1 THEN ts[1]
    ELSE ts[1] \o <<Comma>> \o Join(Tail(ts))

TagInputs == UNION {[1..n -> TagChars] : n \in 0..MaxTagChars}

TagsIdle ==
    /\ tagInput = <<>>
    /\ tpc = "again"
    /\ tags = <<>>
    /\ tagsAgain = <<>>

TagsInit ==
    /\ tagInput \in TagInputs
    /\ tpc = "input"
    /\ tags = <<>>
    /\ tagsAgain = <<>>

\* const defaultTags = normalizeTags(this.settings.defaultTags)
Normalize ==
    /\ tpc = "input"
    /\ tags' = normalizeTags(tagInput)
    /\ tpc' = "normalized"
    /\ UNCHANGED <<tagInput, tagsAgain>>
    /\ UNCHANGED notTags

\* normalizeTags(defaultTags.join(","))
NormalizeAgain ==
    /\ tpc = "normalized"
    /\ tagsAgain' = normalizeTags(Join(tags))
    /\ tpc' = "again"
    /\ UNCHANGED <<tagInput, tags>>
    /\ UNCHANGED notTags

TagsNext ==
    \/ Normalize
    \/ NormalizeAgain

(***************************************************************************)
(* Single-URL import                                                       *)
(*                                                                         *)
(* runImport: the checks of the input, fetchAndExtractContent (detection,  *)
(* download, extraction), processExtractedContent (model call, validation, *)
(* save), and the catch block with the manual import dialog.  A message is *)
(* a sequence of pieces of text; the status of a response is one piece.    *)
(***************************************************************************)
\* ---- detectContentType ----
Pathnames == {<<"/doc", ".pdf">>, <<"/doc", ".PDF">>, <<"/page">>}
Formats == {<<"pdf">>, <<"PDF">>, <<"html">>, <<>>}      \* <<>>: no format parameter
ContentTypes == {<<"application/pdf">>, <<"Application/PDF", "; charset=binary">>,
                 <<"text/html">>, <<>>}                  \* <<>>: no content-type header

\* toLowerCase, on the pieces of text above
Lowered(s) ==
    [k \in 1..Len(s) |-> CASE s[k] = ".PDF" -> ".pdf"
                           [] s[k] = "PDF" -> "pdf"
                           [] s[k] = "Application/PDF" -> "application/pdf"
                           [] OTHER -> s[k]]

isPdfUrl(url) ==
    \/ LET pathname == Lowered(url.pathname) IN pathname[Len(pathname)] = ".pdf"
    \/ Lowered(url.format) = <<"pdf">>

isPdfContentType(contentType) == Includes(Lowered(contentType), "application/pdf")

NotDetected == [isPdf |-> FALSE, contentType |-> <<"none">>]
AssumedHtml == [isPdf |-> FALSE, contentType |-> <<"text/html">>]

\* ---- the errors and their messages ----
HttpStatuses == {401, 403, 404, 500}
HttpError(status, what) == [kind |-> "http", status |-> status, what |-> what]
FrontmatterError == [kind |-> "frontmatter"]
SaveError == [kind |-> "save"]
OpenError == [kind |-> "open"]
NoFailure == [stage |-> "none", error |-> NoError]

Message(e) ==
    CASE e.kind = "http" -> <<"HTTP ", ToString(e.status), " when fetching ", e.what>>
      [] e.kind = "auth" -> <<"OpenAI rejected the API key (", "401",
                              "). Re-enter your key in settings.">>
      [] e.kind = "quota" -> <<"OpenAI quota exhausted. Check billing/usage.">>
      [] e.kind = "frontmatter" -> <<"Model output did not start with YAML frontmatter ('---').">>
      [] e.kind = "save" -> <<"File already exists.">>
      [] e.kind = "open" -> <<"Cannot open the file.">>
      [] "message" \in DOMAIN e -> e.message
      [] OTHER -> IF e.status = NoStatus THEN <<"Connection error.">>
                  ELSE <<ToString(e.status), " status code (no body)">>

\* the errors callModelWithRetries / callPdfVisionWithRetries end with
ModelFailures == {AuthError, QuotaError} \cup {ModelError(st, "none", 1) : st \in Statuses}

\* the documents a download or the user can supply: 3 or 100 bytes, with the
\* signature bytes or without
BufferOf(n, signed) ==
    [k \in 1..n |-> IF signed /\ k <= SignatureLen THEN Signature[k] ELSE OtherByte]
ImportBuffers == {BufferOf(n, signed) : n \in {3, PreviewLen}, signed \in BOOLEAN}

\* message.includes("403") || message.includes("401") || message.includes("Invalid PDF")
isBlockage(message) ==
    Includes(message, "403") \/ Includes(message, "401") \/ Includes(message, "Invalid PDF")

ImportIdle ==
    /\ importUrl = [pathname |-> <<"/page">>, format |-> <<>>]
    /\ ipc = "resolved"
    /\ via = "download"
    /\ probes = 0
    /\ probeFailed = FALSE
    /\ detected = NotDetected
    /\ failure = NoFailure
    /\ manualOffered = 0
    /\ notice = "none"
    /\ resolution = "null"
    /\ steps = <<>>

ImportInit ==
    /\ importUrl \in [pathname : Pathnames, format : Formats]
    /\ ipc = "start"
    /\ via = "download"
    /\ probes = 0
    /\ probeFailed = FALSE
    /\ detected = NotDetected
    /\ failure = NoFailure
    /\ manualOffered = 0
    /\ notice = "none"
    /\ resolution = "pending"
    /\ steps = <<>>

\* an error thrown at `stage` reaches a catch block: the one inside the dialog
\* callback (manual import), or the one of runImport, which opens the manual
\* import dialog when the message looks like a blocked download
Throw(e, stage) ==
    IF via = "manual"
    THEN /\ notice' = "Manual import failed"
         /\ resolution' = "null"
         /\ ipc' = "resolved"
         /\ UNCHANGED <<failure, manualOffered>>
    ELSE /\ failure' = [stage |-> stage, error |-> e]
         /\ IF isBlockage(Message(e))
            THEN /\ notice' = "Automated download failed. Switching to manual import..."
                 /\ manualOffered' = manualOffered + 1
                 /\ ipc' = "dialog"
                 /\ resolution' = resolution
            ELSE /\ notice' = "Import failed"
                 /\ manualOffered' = manualOffered
                 /\ ipc' = "resolved"
                 /\ resolution' = "null"

\* runImport: empty url, invalid url or missing API key: a notice, return null
RejectInput(why) ==
    /\ ipc = "start"
    /\ notice' = why
    /\ resolution' = "null"
    /\ ipc' = "resolved"
    /\ UNCHANGED <<importUrl, steps, via, probes, probeFailed, detected, failure, manualOffered>>
    /\ UNCHANGED notImport

\* detectContentType: the url pattern, else the HEAD request is sent
Detect ==
    /\ ipc = "start"
    /\ IF isPdfUrl(importUrl)
       THEN /\ detected' = [isPdf |-> TRUE, contentType |-> <<"application/pdf">>]
            /\ ipc' = "fetchPdf"
            /\ probes' = probes
       ELSE /\ detected' = detected
            /\ ipc' = "probing"
            /\ probes' = probes + 1
    /\ UNCHANGED <<importUrl, steps, via, probeFailed, failure, manualOffered, notice, resolution>>
    /\ UNCHANGED notImport

\* detectContentType: the HEAD request is answered
ProbeAnswers(contentType) ==
    /\ ipc = "probing"
    /\ detected' = [isPdf |-> isPdfContentType(contentType), contentType |-> contentType]
    /\ ipc' = IF isPdfContentType(contentType) THEN "fetchPdf" ELSE "fetchHtml"
    /\ UNCHANGED <<importUrl, steps, via, probes, probeFailed, failure, manualOffered, notice,
                   resolution>>
    /\ UNCHANGED notImport

ProbeFailsRaises ==
    /\ ipc = "probing"
    /\ probeFailed' = TRUE
    /\ Throw(HttpError(500, "URL"), "detect")
    /\ UNCHANGED <<importUrl, steps, via, probes, detected>>
    /\ UNCHANGED notImport

\* detectContentType: the HEAD request fails: catch { assume HTML }
ProbeFails ==
    /\ ipc = "probing"
    /\ probeFailed' = TRUE
    /\ detected' = AssumedHtml
    /\ ipc' = "fetchHtml"
    /\ UNCHANGED <<importUrl, steps, via, probes, failure, manualOffered, notice, resolution>>
    /\ UNCHANGED notImport

\* fetchPdfAsArrayBuffer / fetchAndExtract: the response has status >= 400
FetchFails(status) ==
    /\ ipc \in {"fetchPdf", "fetchHtml"}
    /\ Throw(HttpError(status, IF ipc = "fetchPdf" THEN "PDF" ELSE "URL"), "fetch")
    /\ UNCHANGED <<importUrl, steps, via, probes, probeFailed, detected>>
    /\ UNCHANGED notImport

\* fetchPdfAsArrayBuffer: the body arrives and its magic bytes are checked
FetchPdfBody(buffer) ==
    /\ ipc = "fetchPdf"
    /\ IF VerifyMagicBytes(buffer).kind = "error"
       THEN Throw(VerifyMagicBytes(buffer), "signature")
       ELSE /\ ipc' = "parsePdf"
            /\ UNCHANGED <<failure, manualOffered, notice, resolution>>
    /\ UNCHANGED <<importUrl, steps, via, probes, probeFailed, detected>>
    /\ UNCHANGED notImport

\* extractPdfContent: getDocumentProxy opens the document
PdfParsed ==
    /\ ipc = "parsePdf"
    /\ ipc' = "model"
    /\ UNCHANGED <<importUrl, steps, via, probes, probeFailed, detected, failure, manualOffered,
                   notice, resolution>>
    /\ UNCHANGED notImport

\* extractPdfContent: getDocumentProxy throws
PdfParseFails ==
    /\ ipc = "parsePdf"
    /\ Throw(ParserError, "extract")
    /\ UNCHANGED <<importUrl, steps, via, probes, probeFailed, detected>>
    /\ UNCHANGED notImport

\* fetchAndExtract: the page is fetched and read
HtmlExtracted ==
    /\ ipc = "fetchHtml"
    /\ ipc' = "model"
    /\ UNCHANGED <<importUrl, steps, via, probes, probeFailed, detected, failure, manualOffered,
                   notice, resolution>>
    /\ UNCHANGED notImport

\* processExtractedContent: the retry controller returns the note
ModelReturns ==
    /\ ipc = "model"
    /\ ipc' = "validate"
    /\ steps' = Append(steps, "model")
    /\ UNCHANGED <<importUrl, via, probes, probeFailed, detected, failure, manualOffered,
                   notice, resolution>>
    /\ UNCHANGED notImport

\* processExtractedContent: the retry controller throws
ModelThrows(e) ==
    /\ ipc = "model"
    /\ Throw(e, "model")
    /\ UNCHANGED <<importUrl, steps, via, probes, probeFailed, detected>>
    /\ UNCHANGED notImport

\* processExtractedContent: ensureFrontmatterPresent returns
Validated ==
    /\ ipc = "validate"
    /\ ipc' = "save"
    /\ steps' = Append(steps, "validated")
    /\ UNCHANGED <<importUrl, via, probes, probeFailed, detected, failure, manualOffered,
                   notice, resolution>>
    /\ UNCHANGED notImport

ValidationFailsSaves ==
    /\ ipc = "validate"
    /\ ipc' = "opening"
    /\ steps' = Append(steps, "saved")
    /\ UNCHANGED <<importUrl, via, probes, probeFailed, detected, failure, manualOffered,
                   notice, resolution>>
    /\ UNCHANGED notImport

\* processExtractedContent: ensureFrontmatterPresent throws
ValidationFails ==
    /\ ipc = "validate"
    /\ Throw(FrontmatterError, "validate")
    /\ UNCHANGED <<importUrl, steps, via, probes, probeFailed, detected>>
    /\ UNCHANGED notImport

\* processExtractedContent: saveNoteToVault created the file
Saved ==
    /\ ipc = "save"
    /\ ipc' = "opening"
    /\ steps' = Append(steps, "saved")
    /\ UNCHANGED <<importUrl, via, probes, probeFailed, detected, failure, manualOffered,
                   notice, resolution>>
    /\ UNCHANGED notImport

\* processExtractedContent: the file is opened when openAfterCreate is set;
\* the notice, return file
Opened ==
    /\ ipc = "opening"
    /\ notice' = "Saved"
    /\ resolution' = "file"
    /\ ipc' = "resolved"
    /\ UNCHANGED <<importUrl, steps, via, probes, probeFailed, detected, failure, manualOffered>>
    /\ UNCHANGED notImport

\* processExtractedContent: openFile throws
OpenFails ==
    /\ ipc = "opening"
    /\ Throw(OpenError, "open")
    /\ UNCHANGED <<importUrl, steps, via, probes, probeFailed, detected>>
    /\ UNCHANGED notImport

\* processExtractedContent: saveNoteToVault throws
SaveFails ==
    /\ ipc = "save"
    /\ Throw(SaveError, "save")
    /\ UNCHANGED <<importUrl, steps, via, probes, probeFailed, detected>>
    /\ UNCHANGED notImport

\* ManualImportModal: the user picks a file; the callback hands its bytes to
\* extractPdfContent
UserPicksFile ==
    /\ ipc = "dialog"
    /\ via' = "manual"
    /\ ipc' = "parsePdf"
    /\ UNCHANGED <<importUrl, steps, probes, probeFailed, detected, failure, manualOffered, notice,
                   resolution>>
    /\ UNCHANGED notImport

\* ManualImportModal: the user closes the dialog; onClose empties it and the
\* callback is never called
UserClosesDialog ==
    /\ ipc = "dialog"
    /\ ipc' = "closed"
    /\ UNCHANGED <<importUrl, steps, via, probes, probeFailed, detected, failure, manualOffered,
                   notice, resolution>>
    /\ UNCHANGED notImport

ImportNext ==
    \/ \E why \in {"Please enter a URL.", "Please enter a valid URL.",
                   "Set your OpenAI API key in the plugin settings first."} : RejectInput(why)
    \/ Detect
    \/ \E contentType \in ContentTypes : ProbeAnswers(contentType)
    \/ ProbeFails
    \/ \E status \in HttpStatuses : FetchFails(status)
    \/ \E buffer \in ImportBuffers : FetchPdfBody(buffer)
    \/ PdfParsed
    \/ PdfParseFails
    \/ HtmlExtracted
    \/ ModelReturns
    \/ \E e \in ModelFailures : ModelThrows(e)
    \/ Validated
    \/ ValidationFails
    \/ Saved
    \/ SaveFails
    \/ Opened
    \/ OpenFails
    \/ UserPicksFile
    \/ UserClosesDialog

(***************************************************************************)
(* Imports running together                                                *)
(*                                                                         *)
(* onload registers two commands and a ribbon icon; their callbacks start  *)
(* runImport or runBatchImport with `void`, so the command returns at once *)
(* and can be used again while an import runs.  Each import is an async    *)
(* function: it stands at one await at a time.  All imports use the one    *)
(* provider of the settings.                                               *)
(***************************************************************************)
Runs == 1..MaxRuns

NoRun == [kind |-> "none", count |-> 0, at |-> 0, pc |-> "none", tries |-> 0, last |-> "none"]

\* the model requests in flight: the imports awaiting formatWithModel
InFlight == {r \in Runs : runs[r].pc = "request"}

RunsIdle ==
    /\ runs = [r \in Runs |-> NoRun]
    /\ stopOnError = FALSE
    /\ runRetries = 0

RunsInit ==
    /\ runs = [r \in Runs |-> NoRun]
    /\ stopOnError \in BOOLEAN
    /\ runRetries \in 0..MaxRunRetries

\* the callback of a command: void this.runImport(url) starts an import of
\* one url, void this.runBatchImport(csv) one of `count` entries (none: the
\* batch returns after its notice)
StartRun(r, kind, count) ==
    /\ runs[r].pc = "none"
    /\ runs' = [runs EXCEPT ![r] =
                  [kind |-> kind, count |-> count, at |-> 0,
                   pc |-> IF count = 0 THEN "done" ELSE "extract",
                   tries |-> 0, last |-> "none"]]
    /\ UNCHANGED <<stopOnError, runRetries>>
    /\ UNCHANGED notRuns

\* fetchAndExtractContent returns; callModelWithRetries sends the first request
Extracted(r) ==
    /\ runs[r].pc = "extract"
    /\ runs' = [runs EXCEPT ![r].pc = "request", ![r].tries = 0]
    /\ UNCHANGED <<stopOnError, runRetries>>
    /\ UNCHANGED notRuns

\* fetchAndExtractContent throws
ExtractFails(r) ==
    /\ runs[r].pc = "extract"
    /\ runs' = [runs EXCEPT ![r].pc = "ended", ![r].last = "failed"]
    /\ UNCHANGED <<stopOnError, runRetries>>
    /\ UNCHANGED notRuns

\* formatWithModel returns the note
RequestReturns(r) ==
    /\ runs[r].pc = "request"
    /\ runs' = [runs EXCEPT ![r].pc = "finish"]
    /\ UNCHANGED <<stopOnError, runRetries>>
    /\ UNCHANGED notRuns

\* formatWithModel throws: a retriable error with attempts left starts the
\* backoff timer, any other error leaves callModelWithRetries
RequestFails(r, retriable) ==
    /\ runs[r].pc = "request"
    /\ IF retriable /\ runs[r].tries # runRetries
       THEN runs' = [runs EXCEPT ![r].pc = "backoff"]
       ELSE runs' = [runs EXCEPT ![r].pc = "ended", ![r].last = "failed"]
    /\ UNCHANGED <<stopOnError, runRetries>>
    /\ UNCHANGED notRuns

\* the backoff timer fires: attempt += 1 and the next request is sent
BackoffEnds(r) ==
    /\ runs[r].pc = "backoff"
    /\ runs' = [runs EXCEPT ![r].pc = "request", ![r].tries = @ + 1]
    /\ UNCHANGED <<stopOnError, runRetries>>
    /\ UNCHANGED notRuns

\* ensureFrontmatterPresent and saveNoteToVault: the file, or an error
NoteFiled(r, ok) ==
    /\ runs[r].pc = "finish"
    /\ runs' = [runs EXCEPT ![r].pc = "ended",
                            ![r].last = IF ok THEN "saved" ELSE "failed"]
    /\ UNCHANGED <<stopOnError, runRetries>>
    /\ UNCHANGED notRuns

\* the pipeline of the entry has ended: runImport returns; runBatchImport
\* counts the result, leaves the loop on `break` or after the last entry, and
\* otherwise starts the delay
Continue(r) ==
    /\ runs[r].pc = "ended"
    /\ runs' = [runs EXCEPT ![r].pc =
                  IF runs[r].kind = "single" THEN "done"
                  ELSE IF runs[r].last = "failed" /\ stopOnError THEN "done"
                  ELSE IF runs[r].at < runs[r].count - 1 THEN "delay"
                  ELSE "done"]
    /\ UNCHANGED <<stopOnError, runRetries>>
    /\ UNCHANGED notRuns

\* runBatchImport: the delay is over, i++, the next entry starts
DelayEnds(r) ==
    /\ runs[r].pc = "delay"
    /\ runs' = [runs EXCEPT ![r].pc = "extract", ![r].at = @ + 1]
    /\ UNCHANGED <<stopOnError, runRetries>>
    /\ UNCHANGED notRuns

RunsNext ==
    \/ \E r \in Runs : StartRun(r, "single", 1)
    \/ \E r \in Runs, count \in 0..MaxBatchLen : StartRun(r, "batch", count)
    \/ \E r \in Runs : Extracted(r)
    \/ \E r \in Runs : ExtractFails(r)
    \/ \E r \in Runs : RequestReturns(r)
    \/ \E r \in Runs, retriable \in BOOLEAN : RequestFails(r, retriable)
    \/ \E r \in Runs : BackoffEnds(r)
    \/ \E r \in Runs, ok \in BOOLEAN : NoteFiled(r, ok)
    \/ \E r \in Runs : Continue(r)
    \/ \E r \in Runs : DelayEnds(r)

(***************************************************************************)
(* Formatting of one document                                              *)
(*                                                                         *)
(* processExtractedContent and runImportSilent, from the extraction result *)
(* to the note: the choice between callPdfVisionWithRetries and            *)
(* callModelWithRetries, the checks of formatPdfWithVision and the retry   *)
(* loop around the request.  A model name is a sequence of pieces of text. *)
(***************************************************************************)
visionModels == <<<<"gpt-4o">>, <<"gpt-4o", "-mini">>, <<"gpt-4", "-turbo">>, <<"gpt-4", ".1">>,
                  <<"o3">>, <<"o3", "-mini">>, <<"o1">>, <<"o1", "-mini">>>>

\* settings.model
Models == {<<"gpt-4o", "-mini">>, <<"ft:", "GPT-4", ".1", ":org">>, <<"gpt-3.5", "-turbo">>,
           <<"gpt-4">>}

\* model.toLowerCase(), on the pieces above
ModelLower(model) == [k \in 1..Len(model) |-> IF model[k] = "GPT-4" THEN "gpt-4" ELSE model[k]]

\* s.includes(p), p a sequence of pieces
IncludesSeq(s, p) ==
    \E k \in 0..(Len(s) - Len(p)) : SubSeq(s, k + 1, k + Len(p)) = p

\* visionModels.some((vm) => modelLower.includes(vm.toLowerCase()))
isVisionModel(model) ==
    \E k \in 1..Len(visionModels) : IncludesSeq(ModelLower(model), visionModels[k])

NoMeta == [contentType |-> "none", pdfBuffer |-> "absent"]

NotVisionError == [kind |-> "error", status |-> NoStatus, code |-> "none",
                   message |-> <<"Model ", "does not support native PDF input.",
                                 " Use text extraction mode instead.">>]
NoBufferError == [kind |-> "error", status |-> NoStatus, code |-> "none",
                  message |-> <<"PDF buffer not available for native vision processing">>]

FormatIdle ==
    /\ fSettings = [provider |-> "openai", pdfHandling |-> "text-extraction",
                    model |-> <<"gpt-4">>, maxRetries |-> 0]
    /\ fMeta = NoMeta
    /\ fpc = "returned"
    /\ fPath = "none"
    /\ fAttempt = 0
    /\ fRequests = 0
    /\ fSleeps = 0
    /\ fOutcome = NoError

FormatInit ==
    /\ fSettings \in [provider : {"openai", "lmstudio"},
                      pdfHandling : {"text-extraction", "native-vision"},
                      model : Models, maxRetries : 0..MaxFormatRetries]
    /\ fMeta = NoMeta
    /\ fpc = "start"
    /\ fPath = "none"
    /\ fAttempt = 0
    /\ fRequests = 0
    /\ fSleeps = 0
    /\ fOutcome = NoError

\* the value of the pdfBuffer field of the result of extractPdfContent
PdfBufferKept == "bytes"

\* fetchAndExtractContent: extractPdfContent returns contentType "pdf" and
\* pdfBuffer: buffer; fetchAndExtract returns an article without that field
ExtractContent(isPdf) ==
    /\ fpc = "start"
    /\ fMeta' = IF isPdf THEN [contentType |-> "pdf", pdfBuffer |-> PdfBufferKept]
                ELSE [contentType |-> "html", pdfBuffer |-> "absent"]
    /\ fpc' = "extracted"
    /\ UNCHANGED <<fSettings, fPath, fAttempt, fRequests, fSleeps, fOutcome>>
    /\ UNCHANGED notFormat

useNativeVision ==
    /\ fMeta.contentType = "pdf"
    /\ fSettings.provider = "openai"
    /\ fSettings.pdfHandling = "native-vision"
    /\ isVisionModel(fSettings.model)

\* if (useNativeVision && isPdf) callPdfVisionWithRetries else callModelWithRetries
ChooseFormatter ==
    /\ fpc = "extracted"
    /\ fPath' = IF useNativeVision THEN "vision" ELSE "text"
    /\ fAttempt' = 0
    /\ fpc' = "call"
    /\ UNCHANGED <<fSettings, fMeta, fRequests, fSleeps, fOutcome>>
    /\ UNCHANGED notFormat

\* an error without status or code reaches the catch of the retry loop: not
\* retriable, break, throw lastError
ThrowUnretried(e) ==
    /\ fOutcome' = e
    /\ fpc' = "thrown"
    /\ UNCHANGED <<fRequests>>

\* formatPdfWithVision: the two checks, then the request; formatWithModel:
\* the request
CallFormatter ==
    /\ fpc = "call"
    /\ IF fPath = "vision" /\ ~isVisionModel(fSettings.model) THEN ThrowUnretried(NotVisionError)
       ELSE IF fPath = "vision" /\ fMeta.pdfBuffer = "absent" THEN ThrowUnretried(NoBufferError)
       ELSE /\ fRequests' = fRequests + 1
            /\ fpc' = "inflight"
            /\ fOutcome' = fOutcome
    /\ UNCHANGED <<fSettings, fMeta, fPath, fAttempt, fSleeps>>
    /\ UNCHANGED notFormat

\* the provider answers with the note
RequestAnswered ==
    /\ fpc = "inflight"
    /\ fOutcome' = Success(fRequests)
    /\ fpc' = "returned"
    /\ UNCHANGED <<fSettings, fMeta, fPath, fAttempt, fRequests, fSleeps>>
    /\ UNCHANGED notFormat

\* the request fails: the catch block of the retry loop
RequestRejected(status, code) ==
    /\ fpc = "inflight"
    /\ LET e == ModelError(status, code, fRequests)
           openai == fPath = "vision" \/ fSettings.provider = "openai"
       IN IF status = 401 /\ openai
          THEN fOutcome' = AuthError /\ fpc' = "thrown" /\ fSleeps' = fSleeps
          ELSE IF code = "insufficient_quota" /\ openai
          THEN fOutcome' = QuotaError /\ fpc' = "thrown" /\ fSleeps' = fSleeps
          ELSE IF ~Retriable(e) \/ fAttempt = fSettings.maxRetries
          THEN fOutcome' = e /\ fpc' = "thrown" /\ fSleeps' = fSleeps
          ELSE fOutcome' = fOutcome /\ fpc' = "sleeping" /\ fSleeps' = fSleeps + 1
    /\ UNCHANGED <<fSettings, fMeta, fPath, fAttempt, fRequests>>
    /\ UNCHANGED notFormat

\* the backoff timer fires: attempt += 1, next turn of the loop
BackoffOver ==
    /\ fpc = "sleeping"
    /\ fAttempt' = fAttempt + 1
    /\ fpc' = "call"
    /\ UNCHANGED <<fSettings, fMeta, fPath, fRequests, fSleeps, fOutcome>>
    /\ UNCHANGED notFormat

FormatNext ==
    \/ \E isPdf \in BOOLEAN : ExtractContent(isPdf)
    \/ ChooseFormatter
    \/ CallFormatter
    \/ RequestAnswered
    \/ \E status \in Statuses, code \in Codes : RequestRejected(status, code)
    \/ BackoffOver

(***************************************************************************)
(* Text of an extraction result                                            *)
(*                                                                         *)
(* fetchAndExtract and extractPdfContent, from the text of the document to *)
(* the `text` field of the result.  A text is a sequence of pieces; the    *)
(* bracketed words of the two notes are one piece each.                    *)
(***************************************************************************)
\* "\n\n[truncated]"
TruncationMarker == <<NL, NL, "[truncated]">>

\* `\n\n[Note: Only first ${maxPages} of ${totalPages} pages extracted]`
PageNote(maxPages, totalPages) ==
    <<NL, NL, "[Note: Only first ", ToString(maxPages), " of ", ToString(totalPages),
      " pages extracted]">>

\* the words of page k of a document
PageWord == <<"one", "two", "three", "four">>

PageText(k, n) == [j \in 1..n |-> PageWord[k]]

\* documents of 1..MaxPdfPages pages, with up to 2 words on each page
PdfDocs ==
    UNION {[1..n -> 0..2] : n \in 1..MaxPdfPages}

PagesOf(doc) == [k \in 1..Len(doc) |-> PageText(k, doc[k])]

\* texts of a page as the DOM gives them
HtmlChars == {"a", NL, "[truncated]"}
HtmlTexts == UNION {[1..n -> HtmlChars] : n \in 0..MaxTextLen}

trimTextMarkerAlways(text, maxChars) == Slice(text, 0, maxChars) \o TruncationMarker

\* if (text.length <= maxChars) return text;
\* return text.slice(0, maxChars) + "\n\n[truncated]"
trimText(text, maxChars) ==
    IF Len(text) <= maxChars THEN text
    ELSE Slice(text, 0, maxChars) \o TruncationMarker

\* extractText(pdf, {mergePages: true}): the text of all the pages of the
\* document, joined
extractText(pages) == JoinLines(pages)

TextIdle ==
    /\ xDoc = [kind |-> "html", text |-> <<>>]
    /\ xMaxChars = 0
    /\ xMaxPages = 0
    /\ xpc = "done"
    /\ xFullText = <<>>
    /\ xText = <<>>

TextInit ==
    /\ xDoc \in [kind : {"html"}, text : HtmlTexts] \cup
                {[kind |-> "pdf", pages |-> PagesOf(doc)] : doc \in PdfDocs}
    /\ xMaxChars \in 0..MaxCharsBound
    /\ xMaxPages \in 0..MaxPdfPages
    /\ xpc = "input"
    /\ xFullText = <<>>
    /\ xText = <<>>

\* fetchAndExtract: textContent.trim(), then trimText
ExtractHtmlText ==
    /\ xpc = "input"
    /\ xDoc.kind = "html"
    /\ xFullText' = Trim(xDoc.text)
    /\ xText' = trimText(Trim(xDoc.text), xMaxChars)
    /\ xpc' = "done"
    /\ UNCHANGED <<xDoc, xMaxChars, xMaxPages>>
    /\ UNCHANGED notText

\* extractPdfContent: extractText over the document, the note about the page
\* limit, then trimText
ExtractPdfText ==
    /\ xpc = "input"
    /\ xDoc.kind = "pdf"
    /\ LET totalPages == Len(xDoc.pages)
           fullText == IF xMaxPages # 0 /\ totalPages > xMaxPages
                       THEN extractText(xDoc.pages) \o PageNote(xMaxPages, totalPages)
                       ELSE extractText(xDoc.pages)
       IN /\ xFullText' = fullText
          /\ xText' = trimText(fullText, xMaxChars)
    /\ xpc' = "done"
    /\ UNCHANGED <<xDoc, xMaxChars, xMaxPages>>
    /\ UNCHANGED notText

\* extractPdfContent: extractText throws: catch, fullText = ""
ExtractPdfTextFails ==
    /\ xpc = "input"
    /\ xDoc.kind = "pdf"
    /\ xFullText' = <<>>
    /\ xText' = trimText(<<>>, xMaxChars)
    /\ xpc' = "done"
    /\ UNCHANGED <<xDoc, xMaxChars, xMaxPages>>
    /\ UNCHANGED notText

TextNext ==
    \/ ExtractHtmlText
    \/ ExtractPdfText
    \/ ExtractPdfTextFails

(***************************************************************************)
(* Provider client cache                                                   *)
(*                                                                         *)
(* getOpenAIClient and the module variable cachedClient.  A client is      *)
(* known by its number in the order of construction.  The function has no  *)
(* await, so calls do not interleave.                                      *)
(***************************************************************************)
\* the api keys and base urls the callers pass: formatPdfWithVision passes no
\* base url, formatWithModel passes getApiBaseUrl()
ApiKeys == {"sk-1", "sk-2"}
BaseUrls == {Undefined, <<"http://localhost:1234/v1">>, <<"http://host:8080/v1">>}

NoClient == [key |-> "none", baseUrl |-> Undefined, client |-> 0]

\* baseUrl || undefined
OrUndefined(baseUrl) == IF baseUrl = <<>> THEN Undefined ELSE baseUrl

CacheHitKeyOnly(apiKey, baseUrl) ==
    cachedClient # NoClient /\ cachedClient.key = apiKey

\* cachedClient?.key === apiKey && cachedClient.baseUrl === baseUrl
CacheHit(apiKey, baseUrl) ==
    /\ cachedClient # NoClient
    /\ cachedClient.key = apiKey
    /\ cachedClient.baseUrl = baseUrl

ClientIdle ==
    /\ cachedClient = NoClient
    /\ built = <<>>
    /\ clientCalls = <<>>

ClientInit ==
    /\ cachedClient = NoClient
    /\ built = <<>>
    /\ clientCalls = <<>>

getOpenAIClient(apiKey, baseUrl) ==
    /\ Len(clientCalls) < MaxClientCalls
    /\ IF CacheHit(apiKey, baseUrl)
       THEN /\ clientCalls' = Append(clientCalls,
                                [apiKey |-> apiKey, baseUrl |-> baseUrl,
                                 client |-> cachedClient.client, built |-> FALSE])
            /\ UNCHANGED <<cachedClient, built>>
       ELSE /\ built' = Append(built, [apiKey |-> apiKey, baseURL |-> OrUndefined(baseUrl)])
            /\ cachedClient' = [key |-> apiKey, baseUrl |-> baseUrl, client |-> Len(built) + 1]
            /\ clientCalls' = Append(clientCalls,
                                [apiKey |-> apiKey, baseUrl |-> baseUrl,
                                 client |-> Len(built) + 1, built |-> TRUE])
    /\ UNCHANGED notClient

ClientNext ==
    \E apiKey \in ApiKeys, baseUrl \in BaseUrls : getOpenAIClient(apiKey, baseUrl)

(***************************************************************************)
(* Saving notes                                                            *)
(*                                                                         *)
(* saveNoteToVault for notes of one title, called by imports that run      *)
(* together: every await of the function is a step at which another call   *)
(* can run.  Path 1 is folder/name.md and path n is folder/name (n).md.    *)
(* A file holds 0 (it was there before) or the number of the call that     *)
(* wrote it.                                                               *)
(***************************************************************************)
Savers == 1..MaxSavers

\* the files with this name that can be in the folder before the first save
ExistingSets == SUBSET (1..MaxExisting)

NoSave == [pc |-> "idle", candidate |-> 0, path |-> 0]

SaveIdle ==
    /\ vaultFiles = <<>>
    /\ vaultFolder = TRUE
    /\ savers = [s \in Savers |-> [pc |-> "done", candidate |-> 0, path |-> 0]]

SaveInit ==
    /\ \E existing \in ExistingSets :
          /\ vaultFiles = [p \in existing |-> 0]
          /\ vaultFolder \in (IF existing = {} THEN BOOLEAN ELSE {TRUE})
    /\ savers = [s \in Savers |-> NoSave]

\* saveNoteToVault is called: ensureFolderExists awaits adapter.exists(folder)
StartSave(s) ==
    /\ savers[s].pc = "idle"
    /\ savers' = [savers EXCEPT ![s].pc = "folder"]
    /\ UNCHANGED <<vaultFiles, vaultFolder>>
    /\ UNCHANGED notSave

\* ensureFolderExists: adapter.exists(folder) answers
FolderChecked(s) ==
    /\ savers[s].pc = "folder"
    /\ savers' = [savers EXCEPT ![s].pc = IF vaultFolder THEN "probe" ELSE "mkdir",
                                ![s].candidate = 1]
    /\ UNCHANGED <<vaultFiles, vaultFolder>>
    /\ UNCHANGED notSave

\* ensureFolderExists: vault.createFolder(folder), which rejects when the
\* folder is there
FolderCreated(s) ==
    /\ savers[s].pc = "mkdir"
    /\ IF vaultFolder
       THEN savers' = [savers EXCEPT ![s].pc = "failed"]
       ELSE savers' = [savers EXCEPT ![s].pc = "probe"]
    /\ vaultFolder' = TRUE
    /\ UNCHANGED <<vaultFiles>>
    /\ UNCHANGED notSave

\* nextAvailablePath: adapter.exists(candidate) answers: the candidate is
\* returned when it is free, else the counter goes up
PathProbed(s) ==
    /\ savers[s].pc = "probe"
    /\ IF savers[s].candidate \in DOMAIN vaultFiles
       THEN savers' = [savers EXCEPT ![s].candidate = @ + 1]
       ELSE savers' = [savers EXCEPT ![s].pc = "create"]
    /\ UNCHANGED <<vaultFiles, vaultFolder>>
    /\ UNCHANGED notSave

\* vault.create(uniquePath, content), which rejects when the file is there
FileCreated(s) ==
    /\ savers[s].pc = "create"
    /\ IF savers[s].candidate \in DOMAIN vaultFiles
       THEN /\ savers' = [savers EXCEPT ![s].pc = "failed"]
            /\ vaultFiles' = vaultFiles
       ELSE /\ vaultFiles' = [p \in DOMAIN vaultFiles \cup {savers[s].candidate} |->
                                IF p = savers[s].candidate THEN s ELSE vaultFiles[p]]
            /\ savers' = [savers EXCEPT ![s].pc = "done", ![s].path = savers[s].candidate]
    /\ UNCHANGED <<vaultFolder>>
    /\ UNCHANGED notSave

SaveNext ==
    \/ \E s \in Savers : StartSave(s)
    \/ \E s \in Savers : FolderChecked(s)
    \/ \E s \in Savers : FolderCreated(s)
    \/ \E s \in Savers : PathProbed(s)
    \/ \E s \in Savers : FileCreated(s)

(***************************************************************************)
(* Specifications                                                          *)
(***************************************************************************)
InitBatch ==
    BatchInit /\ RetryIdle /\ NoteIdle /\ PdfIdle /\ ParseIdle /\ TagsIdle
        /\ ImportIdle /\ RunsIdle /\ FormatIdle /\ TextIdle /\ ClientIdle /\ SaveIdle

InitRetry ==
    RetryInit /\ BatchIdle /\ NoteIdle /\ PdfIdle /\ ParseIdle /\ TagsIdle
        /\ ImportIdle /\ RunsIdle /\ FormatIdle /\ TextIdle /\ ClientIdle /\ SaveIdle

InitNote ==
    NoteInit /\ BatchIdle /\ RetryIdle /\ PdfIdle /\ ParseIdle /\ TagsIdle
        /\ ImportIdle /\ RunsIdle /\ FormatIdle /\ TextIdle /\ ClientIdle /\ SaveIdle

InitPdf ==
    PdfInit /\ BatchIdle /\ RetryIdle /\ NoteIdle /\ ParseIdle /\ TagsIdle
        /\ ImportIdle /\ RunsIdle /\ FormatIdle /\ TextIdle /\ ClientIdle /\ SaveIdle

InitParse ==
    ParseInit /\ BatchIdle /\ RetryIdle /\ NoteIdle /\ PdfIdle /\ TagsIdle
        /\ ImportIdle /\ RunsIdle /\ FormatIdle /\ TextIdle /\ ClientIdle /\ SaveIdle

InitTags ==
    TagsInit /\ BatchIdle /\ RetryIdle /\ NoteIdle /\ PdfIdle /\ ParseIdle
        /\ ImportIdle /\ RunsIdle /\ FormatIdle /\ TextIdle /\ ClientIdle /\ SaveIdle

InitImport ==
    ImportInit /\ BatchIdle /\ RetryIdle /\ NoteIdle /\ PdfIdle /\ ParseIdle
        /\ TagsIdle /\ RunsIdle /\ FormatIdle /\ TextIdle /\ ClientIdle /\ SaveIdle

InitRuns ==
    RunsInit /\ BatchIdle /\ RetryIdle /\ NoteIdle /\ PdfIdle /\ ParseIdle /\ TagsIdle
        /\ ImportIdle /\ FormatIdle /\ TextIdle /\ ClientIdle /\ SaveIdle

InitFormat ==
    FormatInit /\ BatchIdle /\ RetryIdle /\ NoteIdle /\ PdfIdle /\ ParseIdle
        /\ TagsIdle /\ ImportIdle /\ RunsIdle /\ TextIdle /\ ClientIdle /\ SaveIdle

InitText ==
    TextInit /\ BatchIdle /\ RetryIdle /\ NoteIdle /\ PdfIdle /\ ParseIdle /\ TagsIdle
        /\ ImportIdle /\ RunsIdle /\ FormatIdle /\ ClientIdle /\ SaveIdle

InitClient ==
    ClientInit /\ BatchIdle /\ RetryIdle /\ NoteIdle /\ PdfIdle /\ ParseIdle
        /\ TagsIdle /\ ImportIdle /\ RunsIdle /\ FormatIdle /\ TextIdle /\ SaveIdle

InitSave ==
    SaveInit /\ BatchIdle /\ RetryIdle /\ NoteIdle /\ PdfIdle /\ ParseIdle /\ TagsIdle
        /\ ImportIdle /\ RunsIdle /\ FormatIdle /\ TextIdle /\ ClientIdle

SpecBatch == InitBatch /\ [][BatchNext]_vars

SpecRetry == InitRetry /\ [][RetryNext]_vars

\* the provider answers every call and every timer fires
SpecRetryFair == SpecRetry /\ WF_vars(RetryNext)

SpecNote == InitNote /\ [][NoteNext]_vars

SpecPdf == InitPdf /\ [][PdfNext]_vars

SpecParse == InitParse /\ [][ParseNext]_vars

SpecTags == InitTags /\ [][TagsNext]_vars

SpecImport == InitImport /\ [][ImportNext]_vars

\* every request is answered, every step of the pipeline is taken, and the
\* user does not leave the dialog open for ever
SpecImportFair == SpecImport /\ WF_vars(ImportNext)

SpecRuns == InitRuns /\ [][RunsNext]_vars

SpecFormat == InitFormat /\ [][FormatNext]_vars

SpecText == InitText /\ [][TextNext]_vars

SpecClient == InitClient /\ [][ClientNext]_vars

SpecSave == InitSave /\ [][SaveNext]_vars

(***************************************************************************)
(* Properties of the batch orchestrator                                    *)
(***************************************************************************)
Processed == Len(outcomes)

\* the urls of the processed entries that did not end with a file, in order
FailedUrls ==
    LET idx(u) == CHOOSE k \in 1..Len(attempted) : attempted[k] = u
    IN SelectSeq(SubSeq(attempted, 1, Processed), LAMBDA u : outcomes[idx(u)] # "file")

ErrorUrls == [k \in 1..Len(results.errors) |-> results.errors[k].url]

\* C1: after each processed entry success + failed is the number of entries
\* attempted so far, errors holds one record per failed entry in the order of
\* the failures, and the sum never exceeds the input size and is smaller than
\* it when the loop was left with entries remaining.
C1_Accounting ==
    /\ results.success + results.failed = Processed
    /\ Len(attempted) = Processed + (IF bpc = "item" THEN 1 ELSE 0)
    /\ Len(results.errors) = results.failed
    /\ ErrorUrls = FailedUrls
    /\ results.success + results.failed <= Len(entries)
    /\ (stopped /\ i < Len(entries) - 1)
          => results.success + results.failed < Len(entries)

C1_Witness ==
    /\ bpc = "done"
    /\ stopped
    /\ i < Len(entries) - 1
    /\ results.failed = 2
    /\ outcomes = <<"null", "throw">>

C3_AllAttemptedInOrder ==
    continueOnError
       => /\ attempted = SubSeq(entries, 1, Len(attempted))
          /\ ~stopped
          /\ bpc \in {"after", "done"}
                => /\ attempted = entries
                   /\ results.success + results.failed = Len(entries)
                   /\ results.success =
                         Cardinality({k \in 1..Len(outcomes) : outcomes[k] = "file"})
                   /\ results.failed =
                         Cardinality({k \in 1..Len(outcomes) : outcomes[k] # "file"})

C3_Witness ==
    /\ continueOnError
    /\ bpc = "done"
    /\ Len(entries) = 3
    /\ outcomes = <<"file", "throw", "file">>

\* C22: the delay is slept once between two consecutively attempted entries
\* and never after the last attempted one: while an entry is in its pipeline
\* and after the loop the number of sleeps is the number of attempted
\* entries minus one; a sleep that has begun is over before the next entry
\* starts.
C22_DelayBetweenEntries ==
    /\ bpc \in {"item", "after", "done"} => batchSleeps = Len(attempted) - 1
    /\ bpc = "delay" => batchSleeps = Len(attempted) /\ i < Len(entries) - 1
    /\ bpc = "loop" /\ i < Len(entries) => batchSleeps = Len(attempted)

C22_Witness ==
    /\ bpc = "done"
    /\ stopped
    /\ Len(entries) = 3
    /\ Len(attempted) = 2
    /\ batchSleeps = 1

\* C23: after the loop a report is emitted exactly when error reporting is
\* enabled and an error was recorded; it lists every failed url with its
\* message, once each, and the final counts.
C23_ReportIffErrors ==
    bpc = "done"
       => /\ report.emitted <=> (createReport /\ Len(results.errors) > 0)
          /\ report.emitted
                => /\ report.errors = results.errors
                   /\ report.total_success = results.success
                   /\ report.total_failed = results.failed
                   /\ Len(report.errors) = results.failed

(***************************************************************************)
(* Properties of the retry controller                                      *)
(***************************************************************************)
Failures == Len(raised)

LastRaised == raised[Len(raised)]

\* the latest model call has failed (and no call was issued since)
LatestCallFailed == Failures > 0 /\ Calls(trace) = Failures

\* nothing happened after the latest call: no sleep, no further call
NothingAfterLatestCall == Calls(trace) = Failures /\ trace[Len(trace)].ev = "call"

RetriableStatus(e) == e.status = 429 \/ e.status >= 500

FatalForOpenAI(e) ==
    provider = "openai" /\ (e.status = 401 \/ e.code = "insufficient_quota")

\* call, sleep, call, sleep, ..., call
Alternates(t) ==
    \A p \in 1..Len(t) : t[p].ev = (IF p % 2 = 1 THEN "call" ELSE "sleep")

Finished == rpc \in {"returned", "thrown"}

C5_AuthErrorForAnyProvider ==
    (Failures > 0 /\ LastRaised.status = 401)
       => /\ rpc = "thrown"
          /\ NothingAfterLatestCall
          /\ outcome = AuthError

\* C5 (amended): after a call that failed with status 401 there is no further
\* call and no sleep, on any attempt and for any maxRetries; the invocation
\* fails with the authentication error when the provider is openai (text and
\* vision mode) and with the error the call raised when it is lmstudio.
C5_Fatal401 ==
    (Failures > 0 /\ LastRaised.status = 401)
       => /\ rpc = "thrown"
          /\ NothingAfterLatestCall
          /\ (Failures = 1 => Sleeps(trace) = <<>>)
          /\ outcome = (IF provider = "openai" THEN AuthError ELSE LastRaised)

C5_Witness ==
    /\ rpc = "thrown"
    /\ maxRetries = 3
    /\ provider = "openai"
    /\ Failures = 2
    /\ LastRaised.status = 401
    /\ outcome = AuthError

\* C6 as stated: the quota code ends the invocation with the quota error
\* whatever the status and whichever the provider.
C6_QuotaFatalForAnyProvider ==
    (Failures > 0 /\ LastRaised.code = "insufficient_quota")
       => /\ rpc = "thrown"
          /\ NothingAfterLatestCall
          /\ outcome = QuotaError

\* C6 (amended): with provider openai a call that failed with the quota code
\* and a status other than 401 ends the invocation with the quota error, with
\* no further call and no sleep (with status 401 the authentication error is
\* thrown instead); with provider lmstudio the code is not looked at: the
\* error is retried when its status is 429 or >= 500 and attempts remain.
C6_QuotaFatal ==
    (LatestCallFailed /\ LastRaised.code = "insufficient_quota")
       => IF provider = "openai"
          THEN /\ rpc = "thrown"
               /\ NothingAfterLatestCall
               /\ outcome = (IF LastRaised.status = 401 THEN AuthError ELSE QuotaError)
          ELSE IF RetriableStatus(LastRaised) /\ Failures <= maxRetries
               THEN rpc = "sleeping"
               ELSE rpc = "thrown" /\ outcome = LastRaised

C6_Witness ==
    /\ rpc = "thrown"
    /\ provider = "openai"
    /\ maxRetries = 2
    /\ Failures = 1
    /\ LastRaised.code = "insufficient_quota"
    /\ LastRaised.status = 429
    /\ outcome = QuotaError

AllRetriable ==
    \A j \in 1..Failures : RetriableStatus(raised[j]) /\ ~FatalForOpenAI(raised[j])

C7_Bounds ==
    /\ Calls(trace) <= maxRetries + 1
    /\ rpc # "idle" => Calls(trace) >= 1
    /\ (rpc = "thrown" /\ AllRetriable)
          => /\ Calls(trace) = maxRetries + 1
             /\ Len(Sleeps(trace)) = maxRetries
             /\ trace[Len(trace)].ev = "call"
             /\ outcome = LastRaised
             /\ LastRaised.call = maxRetries + 1

\* C7: when every call fails with a retriable error the controller makes
\* maxRetries + 1 calls and maxRetries sleeps, none after the last failure,
\* and fails with the error of the last call; the model is called at least
\* once and at most maxRetries + 1 times, and every invocation ends.
C7_ExhaustsAndTerminates ==
    /\ []C7_Bounds
    /\ (rpc \in {"inflight", "sleeping"}) ~> Finished

C7_Witness ==
    /\ rpc = "thrown"
    /\ maxRetries = 3
    /\ Failures = 4
    /\ AllRetriable
    /\ Len(Sleeps(trace)) = 3

\* C8 as stated: an error whose status is neither 429 nor >= 500 is rethrown
\* as it was raised.
C8_OtherStatusRethrownAsIs ==
    (LatestCallFailed /\ ~RetriableStatus(LastRaised))
       => /\ rpc = "thrown"
          /\ NothingAfterLatestCall
          /\ outcome = LastRaised

\* C8 (amended): a failed call is followed by a sleep or a further call only
\* if its status is 429 or >= 500; after an error with any other status, or
\* none, the invocation fails at once, with no sleep and no further call,
\* whatever maxRetries is.  The error thrown is the one the call raised,
\* except that with provider openai a status 401 is replaced by the
\* authentication error and the quota code by the quota error.
C8_OnlyRetriableRetried ==
    /\ \A j \in 1..Failures :
          (j < Calls(trace) \/ rpc = "sleeping") => RetriableStatus(raised[j])
    /\ (LatestCallFailed /\ ~RetriableStatus(LastRaised))
          => /\ rpc = "thrown"
             /\ NothingAfterLatestCall
             /\ outcome = (IF provider = "openai" /\ LastRaised.status = 401
                              THEN AuthError
                           ELSE IF provider = "openai"
                                   /\ LastRaised.code = "insufficient_quota"
                              THEN QuotaError
                           ELSE LastRaised)

C8_Witness ==
    /\ rpc = "thrown"
    /\ maxRetries = 3
    /\ Failures = 2
    /\ raised[1].status = 503
    /\ LastRaised.status = NoStatus
    /\ outcome = LastRaised

(***************************************************************************)
(* Properties of the frontmatter validator                                 *)
(***************************************************************************)
\* a note in the header format: an opening `---` line, a header that parses
\* to a mapping, a closing `---` line, then the body
IsValidNote(n) ==
    LET ls == SplitLines(n)
    IN /\ Len(ls) >= 2
       /\ ls[1] = Delim
       /\ \E j \in 2..Len(ls) :
             /\ ls[j] = Delim
             /\ \A m \in 2..(j - 1) : ~StartsWith(ls[m], Delim)
             /\ parseYaml(JoinLines(SubSeq(ls, 2, j - 1))) = "mapping"

\* the whole text is one fenced block: a fence line, the content, a fence line
IsFenced(n) ==
    LET ls == SplitLines(n)
    IN Len(ls) >= 2 /\ ls[1] = Fence /\ ls[Len(ls)] = Fence

Unfenced(n) ==
    LET ls == SplitLines(n) IN JoinLines(SubSeq(ls, 2, Len(ls) - 1))

\* C9: a response wrapped as a whole in a fenced block whose content is a
\* valid note validates, and the unwrapped note is returned.
C9_FencedNoteValidates ==
    (npc = "done" /\ IsFenced(note) /\ IsValidNote(Unfenced(note)))
       => validated.ok /\ validated.text = Unfenced(note)

\* the text starts with the three dashes of the delimiter
HasOpening(n) == Len(n) >= 3 /\ \A k \in 1..3 : n[k] = Dash

\* places (1-based) after the opening delimiter where a line starts with the
\* three dashes of the delimiter
Closings(n) ==
    {k \in 4..(Len(n) - 3) : n[k] = NL /\ \A d \in 1..3 : n[k + d] = Dash}

HasClosing(n) == Closings(n) # {}

\* what the block between the opening delimiter and the first closing one is
HeaderKind(n) ==
    LET c == CHOOSE k \in Closings(n) : \A h \in Closings(n) : k <= h
    IN parseYaml(Trim(SubSeq(n, 4, c - 1)))

\* C10: a text that starts with the delimiter, contains a closing delimiter
\* and whose block between them parses to a mapping is returned unchanged; a
\* text without the opening delimiter, or without a closing one, is rejected
\* with the frontmatter error that names what is missing.
C10_DelimitersRequired ==
    npc = "done"
       => /\ (HasOpening(note) /\ HasClosing(note) /\ HeaderKind(note) = "mapping")
                => validated.ok /\ validated.text = note
          /\ ~HasOpening(note)
                => ~validated.ok /\ validated.error = "no opening delimiter"
          /\ (HasOpening(note) /\ ~HasClosing(note))
                => ~validated.ok /\ validated.error = "no closing delimiter"

C10_Witness ==
    /\ npc = "done"
    /\ note = JoinLines(<<Delim, LineEntry, Delim, LineScalar>>)
    /\ validated.ok
    /\ validated.text = note

\* the block between the opening delimiter and the first closing one
HeaderBlock(n) ==
    LET c == CHOOSE k \in Closings(n) : \A h \in Closings(n) : k <= h
    IN SubSeq(n, 4, c - 1)

\* what the two repair strategies make of the block
RepairedKinds(n) ==
    {parseYaml(Trim(ReplaceBackslashes(HeaderBlock(n)))),
     parseYaml(Trim(SanitizeTitles(HeaderBlock(n))))}

\* C11: a header block that parses to a scalar, to a sequence or to null, and
\* that no repair strategy turns into a mapping, is rejected.
C11_NonMappingRejected ==
    (/\ npc = "done"
     /\ HasOpening(note)
     /\ HasClosing(note)
     /\ HeaderKind(note) \in {"scalar", "sequence", "null"}
     /\ "mapping" \notin RepairedKinds(note))
       => ~validated.ok

(***************************************************************************)
(* Properties of the PDF extraction                                        *)
(***************************************************************************)
HasSignature(b) == Len(b) >= 5 /\ SubSeq(b, 1, 5) = <<"%", "P", "D", "F", "-">>

\* C12: a buffer that does not begin with the five signature bytes fails the
\* extraction with the invalid-PDF error, whatever its length and whether it
\* was downloaded or supplied by hand, and the parser is never run on it.
C12_BadSignatureIsInvalidPdf ==
    ~HasSignature(pdfBuffer)
       => /\ parserRuns = 0
          /\ ppc = "done" => pdfOutcome = InvalidPdfError

(***************************************************************************)
(* Properties of the URL list / CSV parser                                 *)
(***************************************************************************)
\* the text is an absolute URL with the scheme http or https
IsAbsoluteHttp(u) ==
    /\ Len(u) >= 2
    /\ u[1] \in {"http", "https"}
    /\ u[2] = Colon
    /\ NewURL(u).ok

\* the text starts with a scheme prefix other than http: and https:
HasOtherScheme(u) == HasScheme(u) /\ u[1] \notin {"http", "https"}

\* C13: every entry parseUrlInput returns has an absolute url with the scheme
\* http or https; a candidate with another scheme prefix is never an entry.
C13_EntriesAreHttp ==
    qpc = "done"
       => \A k \in 1..Len(parsedInput.entries) :
             /\ IsAbsoluteHttp(parsedInput.entries[k].url)
             /\ ~HasOtherScheme(parsedInput.entries[k].url)

\* the lines of the input that are not empty
TypedLines == SelectSeq(inputLines, LAMBDA l : LineText(l) # <<>>)

\* the lines that carry a url candidate: in a bare list every line that is
\* not a comment, in delimited input every row after the header row whose
\* url cell is filled in (none when the header names no url column)
Candidates ==
    IF parsedInput.mode = "list"
    THEN SelectSeq(TypedLines, LAMBDA l : LineText(l)[1] # Hash)
    ELSE IF parsedInput.mode = "csv" /\ TypedLines[1].url # <<>>
    THEN SelectSeq(Tail(TypedLines), LAMBDA l : l.url # <<>>)
    ELSE <<>>

ValidCandidates == SelectSeq(Candidates, LAMBDA l : isValidUrl(normalizeUrl(l.url)))

InvalidCandidates == SelectSeq(Candidates, LAMBDA l : ~isValidUrl(normalizeUrl(l.url)))

InvalidUrlErrors == SelectSeq(parsedInput.errors, LAMBDA e : e.what = "Invalid URL")

EntryUrls == [k \in 1..Len(parsedInput.entries) |-> parsedInput.entries[k].url]

\* C14: parseUrlInput returns a result for every text; every invalid url
\* candidate adds exactly one message to errors, every valid candidate after
\* it is still found among the entries, and a repeated url adds neither an
\* entry nor a message.
C14_InvalidRecordedParsingContinues ==
    qpc = "done"
       => /\ parsedInput.mode \in {"list", "csv", "none"}
          /\ [k \in 1..Len(InvalidUrlErrors) |-> InvalidUrlErrors[k].url]
                = [k \in 1..Len(InvalidCandidates) |-> InvalidCandidates[k].url]
          /\ \A k \in 1..Len(ValidCandidates) :
                \E j \in 1..Len(EntryUrls) : EntryUrls[j] = normalizeUrl(ValidCandidates[k].url)
          /\ Len(EntryUrls)
                = Cardinality({normalizeUrl(ValidCandidates[k].url) : k \in 1..Len(ValidCandidates)})

C14_Witness ==
    /\ qpc = "done"
    /\ inputLines = <<[url |-> UrlWords, label |-> NoLabel],
                      [url |-> UrlHttps, label |-> NoLabel],
                      [url |-> UrlBare, label |-> <<"L1">>]>>
    /\ Len(parsedInput.errors) = 1
    /\ EntryUrls = <<UrlHttps>>

\* the first occurrence of every url, in input order
RECURSIVE KeepFirst(_, _)
KeepFirst(es, seen) ==
    IF es = <<>> THEN <<>>
    ELSE IF es[1].url \in seen THEN KeepFirst(Tail(es), seen)
    ELSE <<es[1]>> \o KeepFirst(Tail(es), seen \cup {es[1].url})

\* C15: no two entries of a result have the same url; the entries are the
\* first occurrences of the valid urls, in input order, each with the label
\* of that first occurrence (a url written without its scheme and the same
\* url written with https:// are one url).
C15_FirstOccurrenceWins ==
    qpc = "done"
       => /\ \A j, k \in 1..Len(EntryUrls) : EntryUrls[j] = EntryUrls[k] => j = k
          /\ parsedInput.entries
                = KeepFirst([k \in 1..Len(ValidCandidates) |->
                                [url |-> normalizeUrl(ValidCandidates[k].url),
                                 label |-> ValidCandidates[k].label]], {})

C15_Witness ==
    /\ qpc = "done"
    /\ inputLines = <<[url |-> UrlBare, label |-> <<"L1">>],
                      [url |-> UrlHttp, label |-> NoLabel],
                      [url |-> UrlHttps, label |-> <<"title">>]>>
    /\ parsedInput.entries = <<[url |-> UrlHttps, label |-> <<"L1">>],
                               [url |-> UrlHttp, label |-> NoLabel]>>

\* the lines of a bare list that carry a url candidate: every line that is
\* not empty and not a comment
ListCandidates == SelectSeq(TypedLines, LAMBDA l : LineText(l)[1] # Hash)

ListValid == SelectSeq(ListCandidates, LAMBDA l : isValidUrl(normalizeUrl(l.url)))

\* C29: for input without a header row every line that is not empty and not
\* a comment, the first line included, whose url is valid and not a
\* duplicate gives one entry, whatever words the url or the label holds.
C29_EveryListLineCounts ==
    /\ qpc = "done"
    /\ inputLines # <<>>
    /\ inputLines[1] # HeaderLine
    => parsedInput.entries
          = KeepFirst([k \in 1..Len(ListValid) |->
                          [url |-> normalizeUrl(ListValid[k].url),
                           label |-> ListValid[k].label]], {})

(***************************************************************************)
(* Properties of the tag normalizer                                        *)
(***************************************************************************)
\* a slug: not empty, made of [a-z0-9-], no hyphen at either end, no two
\* hyphens in a row
IsSlug(t) ==
    /\ t # <<>>
    /\ \A k \in 1..Len(t) : t[k] \in {"a", "b", "1", "-"}
    /\ t[1] # "-" /\ t[Len(t)] # "-"
    /\ \A k \in 1..(Len(t) - 1) : ~(t[k] = "-" /\ t[k + 1] = "-")

\* C16: normalizing the comma-joined output of normalizeTags gives the same
\* slugs in the same order, and the output has no duplicates.
C16_Idempotent ==
    /\ tpc # "input"
          => /\ \A k \in 1..Len(tags) : IsSlug(tags[k])
             /\ \A j, k \in 1..Len(tags) : tags[j] = tags[k] => j = k
    /\ tpc = "again" => tagsAgain = tags

C16_Witness ==
    /\ tpc = "again"
    /\ tagInput = <<"#", "B", "!", "1">>
    /\ tags = <<<<"b", "-", "1">>>>
    /\ tagsAgain = tags

(***************************************************************************)
(* Properties of the single-URL import                                     *)
(***************************************************************************)
PathEndsInPdf == importUrl.pathname[Len(importUrl.pathname)] \in {".pdf", ".PDF"}

FormatIsPdf == importUrl.format \in {<<"pdf">>, <<"PDF">>}

C18_OneRequestInFlight == Cardinality(InFlight) <= 1

\* the download was answered with 401 or 403, or the document failed the
\* signature check
BlockedDownload(f) ==
    \/ f.stage = "fetch" /\ f.error.status \in {401, 403}
    \/ f.stage = "signature"

\* C19: the manual import dialog is offered exactly when the download failed
\* with status 401 or 403 or with a signature failure; a failure of the
\* model call or of the validation ends the import without offering it.
C19_ManualOnlyForBlockedDownload ==
    failure # NoFailure
       => /\ manualOffered >= 1 <=> BlockedDownload(failure)
          /\ failure.stage \in {"model", "validate"}
                => manualOffered = 0 /\ resolution = "null"

\* C20: an import started by runImport eventually resolves, with the file or
\* with null, also when the manual import dialog was offered.
C20_ImportResolves == <>(resolution # "pending")

(***************************************************************************)
(* Properties of the formatting of one document                            *)
(***************************************************************************)
\* C21: in native-vision mode, a model that is not vision-capable or a
\* missing byte buffer ends the invocation with a descriptive error before
\* any request is sent, without a retry and without a sleep.
C21_VisionFailsFast ==
    /\ fSettings.pdfHandling = "native-vision"
    /\ fMeta.contentType = "pdf"
    /\ ~isVisionModel(fSettings.model) \/ fMeta.pdfBuffer = "absent"
    /\ fPath # "none"
    => /\ fRequests = 0
       /\ fSleeps = 0
       /\ fpc \in {"returned", "thrown"} => fOutcome \in {NotVisionError, NoBufferError}

\* C27: the extraction result of a PDF carries the byte buffer only when the
\* PDF handling mode is native-vision.
C27_BufferOnlyForVision ==
    fMeta.contentType = "pdf" /\ fMeta.pdfBuffer # "absent"
       => fSettings.pdfHandling = "native-vision"

(***************************************************************************)
(* Properties of the text of an extraction result                          *)
(***************************************************************************)
\* the pieces of `text` that come from pages after the first n
BeyondLimit(text, n) ==
    {k \in 1..Len(text) : \E p \in (n + 1)..Len(PageWord) : text[k] = PageWord[p]}

EndsWith(s, p) == Len(s) >= Len(p) /\ SubSeq(s, Len(s) - Len(p) + 1, Len(s)) = p

\* the places where p occurs in s
Occurrences(s, p) == {k \in 0..(Len(s) - Len(p)) : SubSeq(s, k + 1, k + Len(p)) = p}

\* C24: with a page limit and a document of more pages, the text holds the
\* content of the first maxPages pages at most, followed by the note naming
\* the limit and the page count.
C24_OnlyFirstPages ==
    /\ xpc = "done"
    /\ xDoc.kind = "pdf"
    /\ xFullText # <<>>
    /\ xMaxPages # 0
    /\ Len(xDoc.pages) > xMaxPages
    => /\ BeyondLimit(xText, xMaxPages) = {}
       /\ \/ EndsWith(xText, PageNote(xMaxPages, Len(xDoc.pages)))
          \/ EndsWith(xText, PageNote(xMaxPages, Len(xDoc.pages)) \o TruncationMarker)

\* C25: the text is at most maxChars plus the marker long; the marker is
\* there, at the end and once, exactly when the untruncated text was longer
\* than maxChars; a text no longer than maxChars is returned unchanged.
C25_MarkerIffTruncated ==
    xpc = "done"
       => /\ Len(xText) <= xMaxChars + Len(TruncationMarker)
          /\ (EndsWith(xText, TruncationMarker)
                 /\ Cardinality(Occurrences(xText, TruncationMarker)) = 1)
             <=> Len(xFullText) > xMaxChars
          /\ Len(xFullText) <= xMaxChars => xText = xFullText

\* C25, as the code has it: the text is at most maxChars plus the marker
\* long; a text no longer than maxChars is returned unchanged; a longer one
\* is cut to its first maxChars characters and the marker is appended to
\* that, once.  (A text that holds the words of the marker keeps them.)
C25_TrimmedOnce ==
    xpc = "done"
       => /\ Len(xText) <= xMaxChars + Len(TruncationMarker)
          /\ Len(xFullText) <= xMaxChars => xText = xFullText
          /\ Len(xFullText) > xMaxChars
                => xText = SubSeq(xFullText, 1, xMaxChars) \o TruncationMarker

C25_Witness ==
    /\ xpc = "done"
    /\ xDoc.kind = "html"
    /\ xMaxChars = 2
    /\ Len(xFullText) = 4
    /\ Len(xText) = 5

(***************************************************************************)
(* Properties of the provider client cache                                 *)
(***************************************************************************)
\* C26: the client a call returns was constructed with the api key and the
\* base url of that call; a call with the same pair as the call before it
\* returns the same client and constructs none.
C26_ClientMatchesPair ==
    \A n \in 1..Len(clientCalls) :
        LET call == clientCalls[n]
        IN /\ call.client \in 1..Len(built)
           /\ built[call.client] = [apiKey |-> call.apiKey, baseURL |-> call.baseUrl]
           /\ n > 1 /\ clientCalls[n - 1].apiKey = call.apiKey
                    /\ clientCalls[n - 1].baseUrl = call.baseUrl
                 => call.client = clientCalls[n - 1].client /\ ~call.built

C26_Witness ==
    /\ Len(clientCalls) = 3
    /\ Len(built) = 2
    /\ clientCalls[1].apiKey = clientCalls[2].apiKey
    /\ clientCalls[1].baseUrl # clientCalls[2].baseUrl
    /\ clientCalls[3].baseUrl = clientCalls[2].baseUrl
    /\ clientCalls[3].client = 2

(***************************************************************************)
(* Properties of the order of the steps of one import                      *)
(***************************************************************************)
\* the places of `steps` where a note file was written
Writes == {k \in 1..Len(steps) : steps[k] = "saved"}

\* C28: a note file is written only after the model call has returned and
\* the validation has accepted its output; an import that fails at
\* detection, download, extraction, model call or validation writes none,
\* and a successful import writes exactly one.
C28_NoteOnlyAfterValidation ==
    /\ \A k \in Writes :
          /\ k = Len(steps)
          /\ k >= 3
          /\ steps[k - 1] = "validated"
          /\ steps[k - 2] = "model"
    /\ resolution = "file" => Cardinality(Writes) = 1
    /\ via = "download"
       /\ failure.stage \in {"detect", "fetch", "signature", "extract", "model", "validate"}
          => Writes = {}
    /\ via = "manual" /\ notice = "Manual import failed" /\ steps # <<>>
       /\ steps[Len(steps)] # "saved"
          => Writes = {}

C28_Witness ==
    /\ resolution = "file"
    /\ via = "manual"
    /\ steps = <<"model", "validated", "saved">>

(***************************************************************************)
(* Properties of saving notes                                              *)
(***************************************************************************)
\* the files that were in the folder before the first save
OldFiles == {p \in DOMAIN vaultFiles : vaultFiles[p] = 0}

\* the first free path: name.md, else name (n).md for the least n
FirstFree(taken) == CHOOSE p \in 1..(Cardinality(taken) + 1) :
                        p \notin taken /\ \A q \in 1..(p - 1) : q \in taken

\* C30: saveNoteToVault never replaces a file; a save creates the note at
\* the base path when it is free, else at the first free numbered path; two
\* imports that save the same title together each end with a new file of
\* their own.
C30_EachSaveCreatesItsOwnFile ==
    /\ \A s \in Savers : savers[s].pc # "failed"
    /\ \A s \in Savers :
          savers[s].pc = "done"
             => /\ savers[s].path \in DOMAIN vaultFiles
                /\ savers[s].path \notin OldFiles
                /\ vaultFiles[savers[s].path] = s
    /\ \A s, t \in Savers :
          savers[s].pc = "done" /\ savers[t].pc = "done" /\ s # t
             => savers[s].path # savers[t].path
    /\ \A s \in Savers :
          savers[s].pc = "done" /\ (\A t \in Savers \ {s} : savers[t].pc = "idle")
             => savers[s].path = FirstFree(OldFiles)

====
